---- MODULE Spec2Model ----
(***************************************************************************)
(* The test-time event simulator of gpui's TestAppContext and              *)
(* VisualTestContext (crates/gpui/src/app/test_context.rs): the            *)
(* deterministic scheduler drain, the event injector, the condition        *)
(* waiter with its notification bridge, the event receivers, the futures   *)
(* of Model::next_event and Model::next_notification, the borrow of the    *)
(* application state, simulate_close, and as_mut with on_quit and quit;    *)
(* the onboarding modal (crates/zed_predict_onboarding/src/modal.rs) and   *)
(* the component registry (crates/component/src/component.rs).             *)
(*                                                                         *)
(* Strings are sequences of one-character strings.                         *)
(***************************************************************************)
EXTENDS Integers, Sequences, FiniteSets, TLC

\* ------------------------------------------------------------------ bounds

\* Longest input string handed to simulate_keystrokes / simulate_input.
MaxLen == 3
\* Most tasks a test spawns into the queue before it drains it.
MaxQueue == 1
\* Longest chain of tasks that enqueue a successor (task n enqueues task n-1).
MaxChain == 1
\* Most timers pending on the test clock at once.
MaxDelayed == 1
\* Most notifications the awaited entity makes.
MaxNotify == 4
\* Seconds of the test clock a wait is followed for.
MaxClock == 5
\* Most should-close handlers the application installs on the window.
MaxInstalls == 2
\* Most calls of simulate_close.
MaxCalls == 3
\* Most clicks on the modal's sign-in button.
MaxSignIns == 2
\* Most clicks on the modal's accept button.
MaxAccepts == 2
\* Most window contexts a test retains with as_mut.
MaxContexts == 2
\* Most calls of quit.
MaxQuits == 2
\* Most cleanups a test registers with on_quit itself.
MaxCleanups == 1
\* Most uses a test makes of a context it has retained.
MaxUses == 1
\* Most calls of init().
MaxInits == 2
\* Most registrations made one by one, outside init().
MaxRegistrations == 3
\* Most events the entity emits.
MaxEmit == 3

\* The values of the events the entity emits.
Events == {"a", "b"}

\* Duration::from_secs(3): the timeout of condition().
ConditionTimeout == 3
\* Duration::from_secs(5): the timeout of next_notification() when CI is set.
NotificationTimeoutCI == 5
\* Duration::from_secs(1): the timeout of next_notification() otherwise.
NotificationTimeout == 1
\* postage::mpsc::channel(1): the capacity of the channel of next_notification().
NotificationCapacity == 1

\* The characters input strings are made of: two letters (which spell the
\* modifier name "fn"), the modifier separator and the token separator.
Alphabet == {"f", "n", "-", " "}

Strings == UNION {[1..n -> Alphabet] : n \in 0..MaxLen}

VARIABLES
    pc,        \* where the test thread is: "idle" between two operations,
               \* "busy" inside an operation, "draining" inside
               \* run_until_parked, "awaiting" a future, "returned" from an
               \* operation, "panicked"
    cont,      \* where the caller of the running drain resumes
    queue,     \* the scheduler's runnable tasks: how many of each chain length
    delayed,   \* timers pending on the test clock
    ticks,     \* tasks run by the current (or last) drain
    owed,      \* tasks queued at the drain's call plus those spawned during it
    log,       \* what the current (or last) operation fed to the window, and its drains
    op,        \* the current (or last) operation and its argument
    quiet,     \* nothing has happened since the last drain returned
    atParked,  \* the scheduler state when the last drain returned
    alive,     \* the awaited entity has not been released
    count,     \* the entity's state: how many times it has notified
    truthy,    \* the predicate: the entity states it holds in
    observing, \* the observers notifications() registered are on the entity
    chan,      \* notifications buffered in the channel
    closed,    \* the channel's sender has closed it
    rx,        \* the channel's receiver exists
    ctimer,    \* the timeout timer: "none", "armed", "fired", "dropped"
    wstate,    \* the wait: "none", "waiting" (suspended), "done"
    outcomes,  \* how the wait has ended
    consumed,  \* notifications the waiter has taken from the stream
    evals,     \* evaluations of the predicate
    atEnd,     \* the entity and the timer when the wait ended
    ci,        \* the environment variable CI is set
    budget,    \* the duration the wait's timer was set with, in seconds
    elapsed,   \* seconds of the test clock since the timer was set
    nstate,    \* the future of next_notification: "none", "created",
               \* "waiting" (suspended), "done"
    nsub,      \* the subscription next_notification holds is on the entity
    ntx,       \* the sender its callback owns exists
    nchan,     \* notifications buffered in its channel
    ntimer,    \* its timeout: "none", "armed", "fired", "dropped"
    noutcomes, \* how the future has ended
    sstate,    \* a stream of notifications() the test reads itself: "none",
               \* "open", "ended" (its consumer has seen the end)
    sbase,     \* how many times the entity had notified when it was opened
    taken,     \* items its consumer has taken
    ends,      \* times its consumer has been handed the end of the stream
    estate,    \* the receiver of events(): "none", "open"
    esub,      \* the subscription events() registered is on the entity
    ebuf,      \* events buffered in its channel
    emitted,   \* the events the entity has emitted
    ebase,     \* how many it had emitted at the call of events() / next_event()
    received,  \* events the consumer has taken from the receiver
    vstate,    \* the future of next_event: "none", "created", "done", "failed"
    vsub,      \* the subscription next_event holds is on the entity
    vtx,       \* its callback still holds the sender (Some)
    vslot,     \* the event in the oneshot channel
    vcalls,    \* invocations of its callback
    vsent,     \* sends its callback has made
    vgot,      \* the event the future resolved with
    held,      \* exclusive borrows of the application state that are held
    bop,       \* the operation that has borrowed it, or "none"
    bat,       \* where that operation is: "none", "borrowed", "called" (its
               \* callback has run), "reentered" (its callback has borrowed
               \* again), "released"
    should_close_handler, \* the test window's should-close handler: <<>> (None)
                          \* or <<h>> (Some(h))
    windowOpen,  \* the window is among the application's windows
    cpos,        \* where simulate_close is: "idle", "updating", "taken",
                 \* "invoked", "returned", "panicked"
    chandler,    \* its local handler: <<>> or <<h>>
    cshould,     \* its local should_close
    cret,        \* what the call returned: "none" (not yet), "true", "false"
    cinvoked,    \* the handlers the call has invoked, each with the borrows
                 \* held when it was invoked
    cbefore,     \* the should-close handler when the call began
    wbefore,     \* windowOpen when the call began
    cruns,       \* invocations of each handler, over all calls
    ccalls,      \* calls of simulate_close
    cinstalls,   \* handlers the application has installed
    mexists,         \* the modal view exists (it has not been dismissed)
    sign_in_status,  \* its field: "Idle", "Waiting", "SignedIn"
    current_user,    \* the user store has a current user
    auths,           \* the tasks sign_in has spawned that have not ended,
                     \* each "pending" (awaiting authenticate_and_connect),
                     \* "ok" or "err" (the result it is about to resume with)
    signIns,         \* calls of sign_in
    rendered,        \* what the last render showed: "none", "sign_in",
                     \* "sign_in_disabled", "idle", "welcome", "unreachable"
    accepts,         \* the tasks accept_and_enable has spawned that have not
                     \* ended: "pending", "ok", "err"
    acceptsStarted,  \* calls of accept_and_enable
    alog,            \* the tasks of accept_and_enable that have ended: how
                     \* accept_terms_of_service ended, whether the modal
                     \* existed, and what the task did
    provider,        \* features.inline_completion_provider in the settings
    settingsWrites,  \* updates of the settings file
    dismissEvents,   \* DismissEvents the tasks of accept_and_enable emitted
    ctxs,        \* the boxed VisualTestContexts as_mut has leaked: "none",
                 \* "live", "freed"
    on_quit,     \* the cleanups registered with on_quit, oldest first
    qlog,        \* what the calls of quit have done, in order
    qcalls,      \* calls of quit
    uaf,         \* reads and writes of a context that has been freed
    component_data,  \* COMPONENT_DATA: the components pushed and the previews
    inits,           \* calls of init()
    rlog,            \* the calls made on the registry, oldest first
    was              \* COMPONENT_DATA as it was before the last of them

schedVars == <<pc, cont, queue, delayed, ticks, owed, log, op, quiet, atParked>>

\* What belongs to Model::next_notification.
notifVars == <<nstate, nsub, ntx, nchan, ntimer, noutcomes>>

\* What belongs to a stream of notifications() read by the test, to events()
\* and to Model::next_event.
bridgeVars == <<sstate, sbase, taken, ends, estate, esub, ebuf, emitted, ebase,
                received, vstate, vsub, vtx, vslot, vcalls, vsent, vgot>>

condVars == <<alive, count, truthy, observing, chan, closed, rx, ctimer, wstate,
              outcomes, consumed, evals, atEnd, ci, budget, elapsed, notifVars,
              bridgeVars>>

\* What belongs to the borrow of the application state.
borrowVars == <<held, bop, bat>>

\* What belongs to VisualTestContext::simulate_close.
closeVars == <<should_close_handler, windowOpen, cpos, chandler, cshould, cret,
               cinvoked, cbefore, wbefore, cruns, ccalls, cinstalls>>

\* What belongs to the onboarding modal.
modalVars == <<mexists, sign_in_status, current_user, auths, signIns, rendered,
               accepts, acceptsStarted, alog, provider, settingsWrites,
               dismissEvents>>

\* What belongs to as_mut, on_quit and quit.
quitVars == <<ctxs, on_quit, qlog, qcalls, uaf>>

\* What belongs to the component registry.
registryVars == <<component_data, inits, rlog, was>>

\* What the scheduler, the waiter and the bridge leave alone.
extVars == <<closeVars, modalVars, quitVars, registryVars>>

vars == <<schedVars, condVars, borrowVars, extVars>>

\* ------------------------------------------------------------- strings

\* The index of the first occurrence of c in s, or 0.
RECURSIVE Find(_, _, _)
Find(s, c, i) ==
    IF i > Len(s) THEN 0
    ELSE IF s[i] = c THEN i
    ELSE Find(s, c, i + 1)

\* str::split(c) for a one-character pattern: the pieces between the
\* occurrences of c; n occurrences give n + 1 pieces, empty ones included.
RECURSIVE Split(_, _)
Split(s, c) ==
    LET i == Find(s, c, 1) IN
    IF i = 0 THEN <<s>>
    ELSE <<SubSeq(s, 1, i - 1)>> \o Split(SubSeq(s, i + 1, Len(s)), c)

\* str::split("") : the empty pattern matches at every character boundary,
\* the start and the end included, so the pieces are an empty string, each
\* character, and an empty string.
SplitEmpty(s) ==
    <<(<<>>)>> \o [i \in 1..Len(s) |-> <<s[i]>>] \o <<(<<>>)>>

\* ------------------------------------------------------- Keystroke::parse

ParseError == [ok |-> FALSE, function |-> FALSE, key |-> <<>>]

\* The loop of Keystroke::parse over the "-"-separated components: a modifier
\* name sets its flag; any other component is the key and must be the last
\* one, except that a trailing "-" is the key "-".
RECURSIVE ParseComponents(_, _, _, _)
ParseComponents(comps, source, function, key) ==
    IF comps = <<>> THEN
        IF key = <<"none">> THEN ParseError
        ELSE [ok |-> TRUE, function |-> function, key |-> key[2]]
    ELSE
        LET c == Head(comps)
            rest == Tail(comps)
        IN
        IF c = <<"f", "n">> THEN ParseComponents(rest, source, TRUE, key)
        ELSE IF rest = <<>> THEN ParseComponents(rest, source, function, <<"some", c>>)
        ELSE IF Head(rest) = <<>> /\ source[Len(source)] = "-"
            THEN [ok |-> TRUE, function |-> function, key |-> <<"-">>]
        ELSE ParseError

\* Keystroke::parse(source): the keystroke, or an error for a malformed token.
Parse(source) == ParseComponents(Split(source, "-"), source, FALSE, <<"none">>)

\* ------------------------------------------------------------- the window

KeyDown(k) == [kind |-> "key_down", function |-> k.function, key |-> k.key]
Input(kind) == [kind |-> kind, function |-> FALSE, key |-> <<>>]
Drain == Input("drain")

\* The task an input handler leaves on the queue: it runs and schedules a
\* redraw (a task that enqueues one successor).
HandlerTask == 1

\* ------------------------------------------------- the scheduler (4.1)

\* A task is the length of the chain of tasks it starts. The test dispatcher
\* runs the runnable tasks in an arbitrary order, so the queue is the bag of
\* its tasks.
Tasks == 0..MaxChain

EmptyQueue == [t \in Tasks |-> 0]

RECURSIVE Count(_, _)
Count(q, n) == IF n < 0 THEN 0 ELSE q[n] + Count(q, n - 1)

\* The number of runnable tasks.
QueueLen(q) == Count(q, MaxChain)

Enqueue(q, task) == [q EXCEPT ![task] = @ + 1]

Dequeue(q, task) == [q EXCEPT ![task] = @ - 1]

\* What running a task leaves on the queue: a task of chain length n > 0
\* enqueues its successor, a task of chain length 0 enqueues nothing.
Spawned(task) == IF task > 0 THEN {task - 1} ELSE {}

\* The queue after one of its tasks has run.
RunTask(q, task) ==
    LET rest == Dequeue(q, task) IN
    IF task > 0 THEN Enqueue(rest, task - 1) ELSE rest

\* BackgroundExecutor::run_until_parked is entered: the caller is suspended
\* at k until the drain returns.
EnterDrain(k) ==
    /\ pc' = "draining"
    /\ cont' = k
    /\ ticks' = 0

\* One iteration of the drain loop: some runnable task is taken off the
\* queue and run; what it spawns is queued behind the others.
Tick ==
    /\ pc = "draining"
    /\ QueueLen(queue) > 0
    /\ \E task \in Tasks :
        /\ queue[task] > 0
        /\ queue' = RunTask(queue, task)
        /\ owed' = owed + Cardinality(Spawned(task))
    /\ ticks' = ticks + 1
    /\ UNCHANGED <<pc, cont, delayed, log, op, quiet, atParked>>
    /\ UNCHANGED condVars
    /\ UNCHANGED <<borrowVars, extVars>>

\* DrainDone of a drain that makes a single pass: it stops after the tasks
\* that were queued when it was called.
DrainDone_single_pass == ticks >= 1 \/ QueueLen(queue) = 0

\* DrainDone of a drain that blocks on an empty queue, waiting for work.
DrainDone_blocks == FALSE

\* The loop's exit test: the drain returns once no task is runnable.
DrainDone == QueueLen(queue) = 0

\* The scheduler state two drains are compared on.
SchedulerState == <<queue, delayed>>

NoOp == [name |-> "none", arg |-> <<>>, clean |-> FALSE]

\* The bookkeeping of an operation that is no drain: it ends the quiet period
\* after the last drain.
Between ==
    /\ quiet' = FALSE
    /\ atParked' = <<>>
    /\ UNCHANGED <<op, log, ticks, owed>>

\* foreground_executor.spawn: a unit of asynchronous work is enqueued.
spawn ==
    /\ pc = "idle"
    /\ QueueLen(queue) < MaxQueue
    /\ \E task \in Tasks : queue' = Enqueue(queue, task)
    /\ Between
    /\ UNCHANGED <<pc, cont, delayed>>
    /\ UNCHANGED condVars
    /\ UNCHANGED <<borrowVars, extVars>>

\* executor.timer(d): a timer is set on the test clock.
timer ==
    /\ pc = "idle"
    /\ delayed < MaxDelayed
    /\ delayed' = delayed + 1
    /\ Between
    /\ UNCHANGED <<pc, cont, queue>>
    /\ UNCHANGED condVars
    /\ UNCHANGED <<borrowVars, extVars>>

\* The test clock is advanced past a timer's deadline: the timer's waker is
\* queued as a runnable task.
advance_clock ==
    /\ pc = "idle"
    /\ delayed > 0
    /\ QueueLen(queue) < MaxQueue
    /\ delayed' = delayed - 1
    /\ queue' = Enqueue(queue, 0)
    /\ Between
    /\ UNCHANGED <<pc, cont>>
    /\ UNCHANGED condVars
    /\ UNCHANGED <<borrowVars, extVars>>

\* ---------------------------------------------------- run_until_parked

\* TestAppContext::run_until_parked and VisualTestContext::run_until_parked
\* both hand over to the executor's drain.
CallDrain(name) ==
    /\ pc = "idle"
    /\ EnterDrain("return")
    /\ owed' = QueueLen(queue)
    /\ op' = [name |-> name, arg |-> <<>>, clean |-> quiet]
    /\ log' = <<Drain>>
    /\ UNCHANGED <<queue, delayed, quiet, atParked>>
    /\ UNCHANGED condVars
    /\ UNCHANGED <<borrowVars, extVars>>

\* run_until_parked returning without handing over to the executor.
run_until_parked_without_drain ==
    /\ pc = "idle"
    /\ pc' = "returned"
    /\ ticks' = 0
    /\ owed' = QueueLen(queue)
    /\ op' = [name |-> "run_until_parked", arg |-> <<>>, clean |-> quiet]
    /\ log' = <<>>
    /\ UNCHANGED <<cont, queue, delayed, quiet, atParked>>
    /\ UNCHANGED condVars
    /\ UNCHANGED <<borrowVars, extVars>>

run_until_parked == CallDrain("run_until_parked")

visual_run_until_parked == CallDrain("visual_run_until_parked")

\* The drain returns to the test: the scheduler is parked.
Parked ==
    /\ pc = "draining"
    /\ cont = "return"
    /\ DrainDone
    /\ pc' = "returned"
    /\ quiet' = TRUE
    /\ atParked' = SchedulerState
    /\ UNCHANGED <<cont, queue, delayed, ticks, owed, log, op>>
    /\ UNCHANGED condVars
    /\ UNCHANGED <<borrowVars, extVars>>

\* The test goes on to its next statement.
proceed ==
    /\ pc = "returned"
    /\ pc' = "idle"
    /\ op' = NoOp
    /\ log' = <<>>
    /\ ticks' = 0
    /\ owed' = 0
    /\ UNCHANGED <<cont, queue, delayed, quiet, atParked>>
    /\ UNCHANGED condVars
    /\ UNCHANGED <<borrowVars, extVars>>

\* ------------------------------------------------ the event injector (4.2)

\* The window's input path: the primitive reaches the window, whose handler
\* leaves a task on the queue.
Feed(st, entry) ==
    [st EXCEPT !.log = Append(st.log, entry),
               !.queue = Enqueue(st.queue, HandlerTask)]

\* dispatch_keystroke draining the scheduler after the keystroke.
dispatch_keystroke_and_drain(st, keystroke) ==
    LET fed == Feed(st, KeyDown(keystroke)) IN
    [fed EXCEPT !.log = Append(fed.log, Drain), !.queue = EmptyQueue]

\* TestAppContext::dispatch_keystroke: one keystroke through update_window.
dispatch_keystroke(st, keystroke) == Feed(st, KeyDown(keystroke))

\* The loop skipping the pieces that do not parse instead of unwrapping them.
RECURSIVE DispatchEach_skip_malformed(_, _)
DispatchEach_skip_malformed(pieces, st) ==
    IF pieces = <<>> THEN st
    ELSE
        LET parsed == Parse(Head(pieces)) IN
        IF ~parsed.ok THEN DispatchEach_skip_malformed(Tail(pieces), st)
        ELSE DispatchEach_skip_malformed(Tail(pieces), Feed(st, KeyDown(parsed)))

\* The loop over pieces that have all been parsed before the first of them
\* is dispatched: a malformed piece panics with nothing dispatched.
RECURSIVE DispatchParsed(_, _)
DispatchParsed(pieces, st) ==
    IF pieces = <<>> THEN st
    ELSE DispatchParsed(Tail(pieces), Feed(st, KeyDown(Parse(Head(pieces)))))

DispatchEach_parse_first(pieces, st) ==
    IF \E i \in 1..Len(pieces) : ~Parse(pieces[i]).ok
    THEN [st EXCEPT !.panicked = TRUE]
    ELSE DispatchParsed(pieces, st)

\* for keystroke in pieces.map(Keystroke::parse).map(Result::unwrap) { dispatch }:
\* the iterator is lazy, so each piece is parsed right before it is
\* dispatched, and the unwrap of a malformed piece panics after the pieces
\* before it have been dispatched.
RECURSIVE DispatchEach(_, _)
DispatchEach(pieces, st) ==
    IF pieces = <<>> THEN st
    ELSE
        LET parsed == Parse(Head(pieces)) IN
        IF ~parsed.ok THEN [st EXCEPT !.panicked = TRUE]
        ELSE DispatchEach(Tail(pieces), dispatch_keystroke(st, parsed))

\* The state the dispatch loop starts from.
Window == [log |-> <<>>, queue |-> queue, panicked |-> FALSE]

\* The end of simulate_keystrokes / simulate_input: a panic of the loop ends
\* the test; otherwise the scheduler is drained.
FinishKeys(name, s, st) ==
    /\ op' = [name |-> name, arg |-> s, clean |-> FALSE]
    /\ queue' = st.queue
    /\ quiet' = FALSE
    /\ IF st.panicked
       THEN /\ pc' = "panicked"
            /\ log' = st.log
            /\ UNCHANGED <<cont, ticks, owed>>
       ELSE /\ EnterDrain("return")
            /\ log' = Append(st.log, Drain)
            /\ owed' = QueueLen(st.queue)
    /\ atParked' = <<>>
    /\ UNCHANGED delayed
    /\ UNCHANGED condVars
    /\ UNCHANGED <<borrowVars, extVars>>

\* TestAppContext::simulate_keystrokes(window, keystrokes)
simulate_keystrokes ==
    /\ pc = "idle"
    /\ \E s \in Strings :
        FinishKeys("simulate_keystrokes", s, DispatchEach(Split(s, " "), Window))

\* TestAppContext::simulate_input(window, input)
simulate_input ==
    /\ pc = "idle"
    /\ \E s \in Strings :
        FinishKeys("simulate_input", s, DispatchEach(SplitEmpty(s), Window))

\* The primitive events simulate_mouse_move, simulate_mouse_down,
\* simulate_mouse_up and simulate_modifiers_change build.
Primitives == {"mouse_move", "mouse_down", "mouse_up", "modifiers_changed"}

\* VisualTestContext::simulate_event(event), its caller resuming at k: the
\* event goes to the test window's input callback, then the scheduler is
\* drained.
SimulateEvent(kind, k, before) ==
    LET st == Feed([log |-> before, queue |-> queue, panicked |-> FALSE], Input(kind)) IN
    /\ queue' = st.queue
    /\ log' = Append(st.log, Drain)
    /\ owed' = QueueLen(st.queue)
    /\ quiet' = FALSE
    /\ atParked' = <<>>
    /\ EnterDrain(k)
    /\ UNCHANGED delayed
    /\ UNCHANGED condVars
    /\ UNCHANGED <<borrowVars, extVars>>

simulate_event ==
    /\ pc = "idle"
    /\ \E kind \in Primitives :
        /\ SimulateEvent(kind, "return", <<>>)
        /\ op' = [name |-> "simulate_event", arg |-> <<kind>>, clean |-> FALSE]

\* simulate_click feeding the mouse-up first.
simulate_click_up_first ==
    /\ pc = "idle"
    /\ SimulateEvent("mouse_up", "click_up", <<>>)
    /\ op' = [name |-> "simulate_click", arg |-> <<>>, clean |-> FALSE]

\* VisualTestContext::simulate_click: its first simulate_event (mouse down).
simulate_click ==
    /\ pc = "idle"
    /\ SimulateEvent("mouse_down", "click_up", <<>>)
    /\ op' = [name |-> "simulate_click", arg |-> <<>>, clean |-> FALSE]

\* simulate_click resumes when the drain of its first simulate_event has
\* returned: its second simulate_event (mouse up).
simulate_click_up ==
    /\ pc = "draining"
    /\ cont = "click_up"
    /\ DrainDone
    /\ SimulateEvent("mouse_up", "return", log)
    /\ UNCHANGED op

\* ------------------------------------- the borrow of the application state

\* The operations followed through their borrow: what each does under it
\* and after it.
\*   add_empty_window, add_window_view: borrow_mut, open_window(builder),
\*     drop(cx), run_until_parked;
\*   dispatch_action: update_window (borrow_mut, the action's handlers, the
\*     guard dropped at its return), run_until_parked;
\*   update: borrow_mut, the closure, the guard dropped at its return;
\*   next_notification: borrow_mut, cx.observe, the guard dropped at its
\*     return, the future awaited by the caller.
BorrowingOps ==
    {"add_empty_window", "add_window_view", "dispatch_action", "update",
     "next_notification"}

\* The operation runs code of the test under its borrow.
RunsCallback(name) == name \in {"add_window_view", "dispatch_action", "update"}

\* The operation leaves work on the queue under its borrow.
LeavesWork(name) == name \in {"add_empty_window", "add_window_view", "dispatch_action"}

\* The operation ends with run_until_parked.
EndsWithDrain(name) == name \in {"add_empty_window", "add_window_view", "dispatch_action"}

\* The operation returns a future that the test awaits.
ReturnsFuture(name) == name = "next_notification"

\* A borrow_mut that does not look at the flag.
borrow_mut_unchecked(flag) == [held |-> flag + 1, ok |-> TRUE]

\* RefCell::borrow_mut: the exclusive borrow is given when none is held,
\* and panics otherwise.
borrow_mut(flag) ==
    IF flag = 0 THEN [held |-> 1, ok |-> TRUE] ELSE [held |-> flag, ok |-> FALSE]

\* An operation that goes on with its guard alive.
drop_guard_forgotten(flag) == flag

\* drop(cx), or the guard going out of scope at the return of the function
\* that took it.
drop_guard(flag) == flag - 1

\* An operation begins: let mut cx = self.app.borrow_mut().
borrow_app ==
    /\ pc = "idle"
    /\ \E name \in BorrowingOps :
        /\ bop' = name
        /\ held' = borrow_mut(held).held
        /\ pc' = IF borrow_mut(held).ok THEN "busy" ELSE "panicked"
        /\ bat' = "borrowed"
    /\ Between
    /\ UNCHANGED <<cont, queue, delayed>>
    /\ UNCHANGED condVars
    /\ UNCHANGED extVars

\* What the operation does under its borrow, its callbacks keeping to the
\* context they are given.
callback_runs ==
    /\ pc = "busy"
    /\ bat = "borrowed"
    /\ bat' = "called"
    /\ queue' = IF LeavesWork(bop) THEN Enqueue(queue, HandlerTask) ELSE queue
    /\ UNCHANGED <<pc, cont, delayed, ticks, owed, log, op, quiet, atParked>>
    /\ UNCHANGED <<held, bop>>
    /\ UNCHANGED condVars
    /\ UNCHANGED extVars

\* A callback running under the borrow calls an operation of the test
\* context, which borrows the application state again.
callback_reenters ==
    /\ pc = "busy"
    /\ bat = "borrowed"
    /\ RunsCallback(bop)
    /\ bat' = "reentered"
    /\ held' = borrow_mut(held).held
    /\ pc' = IF borrow_mut(held).ok THEN "busy" ELSE "panicked"
    /\ UNCHANGED <<cont, queue, delayed, ticks, owed, log, op, quiet, atParked>>
    /\ UNCHANGED bop
    /\ UNCHANGED condVars
    /\ UNCHANGED extVars

\* The guard is dropped.
release_guard ==
    /\ pc = "busy"
    /\ bat \in {"called", "reentered"}
    /\ held' = drop_guard(held)
    /\ bat' = "released"
    /\ UNCHANGED schedVars
    /\ UNCHANGED bop
    /\ UNCHANGED condVars
    /\ UNCHANGED extVars

\* The rest of the operation: run_until_parked, or the return of the future
\* that the test awaits, or the plain return.
after_borrow ==
    /\ pc = "busy"
    /\ bat = "released"
    /\ bat' = "none"
    /\ op' = [name |-> bop, arg |-> <<>>, clean |-> FALSE]
    /\ IF EndsWithDrain(bop)
       THEN /\ EnterDrain("return")
            /\ log' = <<Drain>>
            /\ owed' = QueueLen(queue)
       ELSE /\ pc' = IF ReturnsFuture(bop) THEN "awaiting" ELSE "returned"
            /\ log' = <<>>
            /\ UNCHANGED <<cont, ticks, owed>>
    /\ UNCHANGED <<queue, delayed, quiet, atParked>>
    /\ UNCHANGED <<held, bop>>
    /\ UNCHANGED condVars
    /\ UNCHANGED extVars

\* The awaited future completes and the test goes on.
resume ==
    /\ pc = "awaiting"
    /\ pc' = "returned"
    /\ UNCHANGED <<cont, queue, delayed, ticks, owed, log, op, quiet, atParked>>
    /\ UNCHANGED <<borrowVars, extVars>>
    /\ UNCHANGED condVars

\* ------------------------------------- VisualTestContext::simulate_close

\* The handlers the application may install: what a handler answers and
\* whether it removes the window itself while it runs.
Handlers == [id : 1..MaxInstalls, says : BOOLEAN, closes : BOOLEAN]

\* The frame of a step of this section.
NotClose == <<schedVars, condVars, bop, bat, modalVars, quitVars, registryVars>>

\* The application installs a should-close handler on the window, between
\* two calls of simulate_close.
set_should_close_handler ==
    /\ cpos \in {"idle", "returned"}
    /\ cinstalls < MaxInstalls
    /\ \E says \in BOOLEAN, closes \in BOOLEAN :
        should_close_handler' =
            <<[id |-> cinstalls + 1, says |-> says, closes |-> closes]>>
    /\ cinstalls' = cinstalls + 1
    /\ cpos' = "idle"
    /\ UNCHANGED <<windowOpen, chandler, cshould, cret, cinvoked, cbefore,
                   wbefore, cruns, ccalls>>
    /\ UNCHANGED held
    /\ UNCHANGED NotClose

\* self.window.update(&mut self.cx, ..): the update of a window that is no
\* longer among the application's windows is an Err, which .unwrap() makes
\* a panic.
update_window(open) == open

\* should_close_handler.take()
take(slot) == [handler |-> slot, left |-> <<>>]

\* A call that answers true whatever the handler says.
should_close_always(h) == TRUE

\* let should_close = handler()
should_close(h) == h.says

\* A call that does not give the handler back.
on_should_close_forgotten(slot, h) == slot

\* window.platform_window.on_should_close(handler)
on_should_close(slot, h) == <<h>>

\* simulate_close begins: the first self.window.update borrows the
\* application state.
close_begin ==
    /\ cpos \in {"idle", "returned"}
    /\ ccalls < MaxCalls
    /\ ccalls' = ccalls + 1
    /\ cbefore' = should_close_handler
    /\ wbefore' = windowOpen
    /\ cinvoked' = <<>>
    /\ cret' = "none"
    /\ IF update_window(windowOpen) /\ borrow_mut(held).ok
       THEN /\ held' = borrow_mut(held).held
            /\ cpos' = "updating"
       ELSE /\ cpos' = "panicked"
            /\ UNCHANGED held
    /\ UNCHANGED <<should_close_handler, windowOpen, chandler, cshould, cruns,
                   cinstalls>>
    /\ UNCHANGED NotClose

\* The closure of the first update takes the handler out of the window, and
\* the update returns: its borrow is over.
close_take ==
    /\ cpos = "updating"
    /\ chandler' = take(should_close_handler).handler
    /\ should_close_handler' = take(should_close_handler).left
    /\ held' = drop_guard(held)
    /\ cpos' = "taken"
    /\ UNCHANGED <<windowOpen, cshould, cret, cinvoked, cbefore, wbefore,
                   cruns, ccalls, cinstalls>>
    /\ UNCHANGED NotClose

\* if let Some(mut handler) = handler { let should_close = handler(); ..}
\* else { false }
close_invoke ==
    /\ cpos = "taken"
    /\ IF chandler = <<>>
       THEN /\ cret' = "false"
            /\ cpos' = "returned"
            /\ UNCHANGED <<windowOpen, cshould, cinvoked, cruns>>
       ELSE LET h == chandler[1] IN
            /\ cinvoked' = Append(cinvoked, [id |-> h.id, held |-> held])
            /\ cruns' = [cruns EXCEPT ![h.id] = @ + 1]
            /\ cshould' = should_close(h)
            /\ windowOpen' = (windowOpen /\ ~h.closes)
            /\ cpos' = "invoked"
            /\ UNCHANGED cret
    /\ UNCHANGED <<should_close_handler, chandler, cbefore, wbefore, ccalls,
                   cinstalls>>
    /\ UNCHANGED held
    /\ UNCHANGED NotClose

\* The second update gives the handler back to the window, and the call
\* returns should_close.
close_install ==
    /\ cpos = "invoked"
    /\ IF update_window(windowOpen) /\ borrow_mut(held).ok
       THEN /\ should_close_handler' =
                    on_should_close(should_close_handler, chandler[1])
            /\ cret' = IF cshould THEN "true" ELSE "false"
            /\ cpos' = "returned"
       ELSE /\ cpos' = "panicked"
            /\ UNCHANGED <<should_close_handler, cret>>
    /\ chandler' = <<>>
    /\ held' = IF update_window(windowOpen) /\ borrow_mut(held).ok
               THEN drop_guard(borrow_mut(held).held) ELSE held
    /\ UNCHANGED <<windowOpen, cshould, cinvoked, cbefore, wbefore, cruns,
                   ccalls, cinstalls>>
    /\ UNCHANGED NotClose

\* ------------------------------------------------------ ZedPredictModal

\* The frame of a step of this section.
NotModal == <<schedVars, condVars, borrowVars, closeVars, quitVars, registryVars>>

\* A sequence without its i-th element.
Without(s, i) == SubSeq(s, 1, i - 1) \o SubSeq(s, i + 1, Len(s))

\* A sign-in button that is never disabled.
disabled_never(status) == FALSE

\* .disabled(self.sign_in_status == SignInStatus::Waiting)
disabled(status) == status = "Waiting"

\* Render::render: with a current user the copy that goes with the status
\* and the accept button, Waiting being unreachable!(); without one the
\* sign-in button.
View ==
    IF current_user
    THEN IF sign_in_status = "Idle" THEN "idle"
         ELSE IF sign_in_status = "SignedIn" THEN "welcome"
         ELSE "unreachable"
    ELSE IF disabled(sign_in_status) THEN "sign_in_disabled" ELSE "sign_in"

\* The modal is there and no render of it has panicked.
Showing == mexists /\ rendered # "unreachable"

\* The window renders the modal.
render ==
    /\ Showing
    /\ rendered' = View
    /\ UNCHANGED <<mexists, sign_in_status, current_user, auths, signIns,
                   accepts, acceptsStarted, alog, provider, settingsWrites,
                   dismissEvents>>
    /\ UNCHANGED NotModal

\* The user store's current user changes: the user is signed in, or out.
user_store_updates ==
    /\ rendered # "unreachable"
    /\ current_user' = ~current_user
    /\ UNCHANGED <<mexists, sign_in_status, auths, signIns, rendered, accepts,
                   acceptsStarted, alog, provider, settingsWrites,
                   dismissEvents>>
    /\ UNCHANGED NotModal

\* ZedPredictModal::sign_in, the listener of the sign-in button, which is
\* there when render() finds no current user and takes clicks unless it is
\* disabled: the status becomes Waiting and the task is spawned.
sign_in ==
    /\ Showing
    /\ View \in {"sign_in", "sign_in_disabled"}
    /\ ~disabled(sign_in_status)
    /\ signIns < MaxSignIns
    /\ signIns' = signIns + 1
    /\ sign_in_status' = "Waiting"
    /\ auths' = Append(auths, "pending")
    /\ UNCHANGED <<mexists, current_user, rendered, accepts, acceptsStarted,
                   alog, provider, settingsWrites, dismissEvents>>
    /\ UNCHANGED NotModal

\* client.authenticate_and_connect(true, &cx) completes, with Ok or Err.
authenticate_and_connect ==
    /\ rendered # "unreachable"
    /\ \E i \in 1..Len(auths), ok \in BOOLEAN :
        /\ auths[i] = "pending"
        /\ auths' = [auths EXCEPT ![i] = IF ok THEN "ok" ELSE "err"]
    /\ UNCHANGED <<mexists, sign_in_status, current_user, signIns, rendered,
                   accepts, acceptsStarted, alog, provider, settingsWrites,
                   dismissEvents>>
    /\ UNCHANGED NotModal

\* let status = match result { Ok(_) => SignedIn, Err(_) => Idle }
StatusOf(result) == IF result = "ok" THEN "SignedIn" ELSE "Idle"

\* The task of sign_in goes on after the await: this.update sets the status
\* if the modal is still there, and fails, ending the task, if it is not.
sign_in_resumes ==
    /\ rendered # "unreachable"
    /\ \E i \in 1..Len(auths) :
        /\ auths[i] # "pending"
        /\ sign_in_status' = IF mexists THEN StatusOf(auths[i]) ELSE sign_in_status
        /\ auths' = Without(auths, i)
    /\ UNCHANGED <<mexists, current_user, signIns, rendered, accepts,
                   acceptsStarted, alog, provider, settingsWrites,
                   dismissEvents>>
    /\ UNCHANGED NotModal

\* ZedPredictModal::accept_and_enable, the listener of the accept button,
\* which is there when render() finds a current user:
\* accept_terms_of_service is begun and the task that awaits it is spawned.
accept_and_enable ==
    /\ Showing
    /\ View \in {"idle", "welcome"}
    /\ acceptsStarted < MaxAccepts
    /\ acceptsStarted' = acceptsStarted + 1
    /\ accepts' = Append(accepts, "pending")
    /\ UNCHANGED <<mexists, sign_in_status, current_user, auths, signIns,
                   rendered, alog, provider, settingsWrites, dismissEvents>>
    /\ UNCHANGED NotModal

\* The user store's accept_terms_of_service completes, with Ok or Err.
accept_terms_of_service ==
    /\ rendered # "unreachable"
    /\ \E i \in 1..Len(accepts), ok \in BOOLEAN :
        /\ accepts[i] = "pending"
        /\ accepts' = [accepts EXCEPT ![i] = IF ok THEN "ok" ELSE "err"]
    /\ UNCHANGED <<mexists, sign_in_status, current_user, auths, signIns,
                   rendered, acceptsStarted, alog, provider, settingsWrites,
                   dismissEvents>>
    /\ UNCHANGED NotModal

\* A task that goes on to the settings whatever the await returned.
AfterAccept_ignores_error(result, exists) ==
    IF exists THEN [wrote |-> TRUE, emitted |-> TRUE]
    ELSE [wrote |-> FALSE, emitted |-> FALSE]

\* task.await?; this.update(&mut cx, |this, cx| { update_settings_file(..);
\* cx.emit(DismissEvent) }): the error of the await ends the task, and
\* the update of a modal that is gone runs nothing.
AfterAccept(result, exists) ==
    IF result = "err" THEN [wrote |-> FALSE, emitted |-> FALSE]
    ELSE IF exists THEN [wrote |-> TRUE, emitted |-> TRUE]
    ELSE [wrote |-> FALSE, emitted |-> FALSE]

\* The task of accept_and_enable goes on after the await.
accept_resumes ==
    /\ rendered # "unreachable"
    /\ \E i \in 1..Len(accepts) :
        /\ accepts[i] # "pending"
        /\ LET did == AfterAccept(accepts[i], mexists) IN
            /\ provider' = IF did.wrote THEN "Zed" ELSE provider
            /\ settingsWrites' = settingsWrites + (IF did.wrote THEN 1 ELSE 0)
            /\ dismissEvents' = dismissEvents + (IF did.emitted THEN 1 ELSE 0)
            /\ alog' = Append(alog, [result |-> accepts[i], existed |-> mexists,
                                     wrote |-> did.wrote, emitted |-> did.emitted])
        /\ accepts' = Without(accepts, i)
    /\ UNCHANGED <<mexists, sign_in_status, current_user, auths, signIns,
                   rendered, acceptsStarted>>
    /\ UNCHANGED NotModal

\* The modal is dismissed (ZedPredictModal::cancel, the close button, or a
\* DismissEvent a task has emitted) and the workspace drops it.
cancel ==
    /\ Showing
    /\ mexists' = FALSE
    /\ UNCHANGED <<sign_in_status, current_user, auths, signIns, rendered,
                   accepts, acceptsStarted, alog, provider, settingsWrites,
                   dismissEvents>>
    /\ UNCHANGED NotModal

\* ------------------------------------------------ as_mut, on_quit, quit

\* The frame of a step of this section.
NotQuit == <<schedVars, condVars, borrowVars, closeVars, modalVars, registryVars>>

\* The entries of the log that are cleanups.
CleanupsRun == SelectSeq(qlog, LAMBDA e : e.did \in {"drop", "plain"})

\* The process has been brought down by a read of freed memory.
Crashed == \E k \in 1..Len(qlog) : qlog[k].did = "crashed"

\* The uses of a retained context the log holds.
Uses == SelectSeq(qlog, LAMBDA e : e.did = "use")

\* self.on_quit.borrow_mut().push(Box::new(f)): the cleanup goes to the end
\* of the list; n is its place among all the cleanups ever registered.
push(list, kind, ctx) ==
    Append(list, [kind |-> kind, ctx |-> ctx,
                  n |-> Len(CleanupsRun) + Len(list) + 1])

\* VisualTestContext::as_mut: the context is boxed and leaked, and the
\* cleanup that makes the box again from the raw pointer and drops it is
\* registered with on_quit.
as_mut ==
    /\ ~Crashed
    /\ \E i \in 1..MaxContexts :
        /\ ctxs[i] = "none"
        /\ \A j \in 1..(i - 1) : ctxs[j] # "none"
        /\ ctxs' = [ctxs EXCEPT ![i] = "live"]
        /\ on_quit' = push(on_quit, "drop", i)
    /\ UNCHANGED <<qlog, qcalls, uaf>>
    /\ UNCHANGED NotQuit

\* TestAppContext::on_quit, called by the test with a cleanup of its own.
register_cleanup ==
    /\ ~Crashed
    /\ Cardinality({k \in 1..Len(on_quit) : on_quit[k].kind = "plain"})
        + Len(SelectSeq(qlog, LAMBDA e : e.did = "plain")) < MaxCleanups
    /\ on_quit' = push(on_quit, "plain", 0)
    /\ UNCHANGED <<ctxs, qlog, qcalls, uaf>>
    /\ UNCHANGED NotQuit

\* What the log holds for the cleanups a call of quit drains, in the order
\* of the list.
Drained(list, call) ==
    [k \in 1..Len(list) |->
        [call |-> call, did |-> list[k].kind, ctx |-> list[k].ctx, n |-> list[k].n]]

\* The contexts once the cleanups of the list have run:
\* drop(Box::from_raw(ptr)) frees the context the cleanup was made for.
Dropped(list) ==
    [i \in 1..MaxContexts |->
        IF \E k \in 1..Len(list) : list[k].kind = "drop" /\ list[k].ctx = i
        THEN "freed" ELSE ctxs[i]]

\* TestAppContext::quit, called on the test's own TestAppContext (via = 0)
\* or, through Deref, on a context as_mut has given out (via = i):
\* self.on_quit.borrow_mut().drain(..).for_each(|f| f()), then
\* self.app.borrow_mut().shutdown().  Where self is a context that has been
\* freed, before the call or by one of its cleanups, the read of self is
\* a read of freed memory: the call goes on as if nothing had happened or
\* the process is brought down.
quit ==
    /\ ~Crashed
    /\ qcalls < MaxQuits
    /\ qcalls' = qcalls + 1
    /\ \E via \in 0..MaxContexts :
        /\ via # 0 => ctxs[via] # "none"
        /\ LET atEntry == via # 0 /\ ctxs[via] = "freed"
               atExit == via # 0 /\ Dropped(on_quit)[via] = "freed"
               end(did) == [call |-> qcalls + 1, did |-> did, ctx |-> via, n |-> 0]
           IN
           \E downAtEntry \in (IF atEntry THEN BOOLEAN ELSE {FALSE}),
              downAtExit \in (IF atExit THEN BOOLEAN ELSE {FALSE}) :
                IF downAtEntry
                THEN /\ qlog' = Append(qlog, end("crashed"))
                     /\ uaf' = uaf + 1
                     /\ UNCHANGED <<ctxs, on_quit>>
                ELSE /\ ctxs' = Dropped(on_quit)
                     /\ on_quit' = <<>>
                     /\ qlog' = qlog \o Drained(on_quit, qcalls + 1)
                                     \o <<end(IF downAtExit THEN "crashed" ELSE "shutdown")>>
                     /\ uaf' = uaf + (IF atEntry THEN 1 ELSE 0)
                                   + (IF atExit THEN 1 ELSE 0)
    /\ UNCHANGED NotQuit

\* The test uses the &'static mut VisualTestContext that as_mut gave it.
use_context ==
    /\ ~Crashed
    /\ Len(Uses) < MaxUses
    /\ \E i \in 1..MaxContexts :
        /\ ctxs[i] # "none"
        /\ qlog' = Append(qlog, [call |-> qcalls, did |-> "use", ctx |-> i, n |-> 0])
        /\ uaf' = uaf + (IF ctxs[i] = "freed" THEN 1 ELSE 0)
    /\ UNCHANGED <<ctxs, on_quit, qcalls>>
    /\ UNCHANGED NotQuit

\* -------------------------------------------------- the component registry

\* The frame of a step of this section.
NotRegistry == <<schedVars, condVars, borrowVars, closeVars, modalVars, quitVars>>

\* The types that implement Component: two of them have the same name().
\* A type's preview function is named by the type.
ComponentTypes == 1..3
type_name(t) == IF t = 3 THEN "b" ELSE "a"
type_scope(t) == IF t = 1 THEN "editor" ELSE IF t = 2 THEN "none" ELSE "layout"
type_description(t) == IF t = 1 THEN "first" ELSE "none"

\* __ALL_COMPONENTS and __ALL_PREVIEWS: the registrations the build has
\* collected, as the types they register; the two collected components
\* have the same name.
ALL_COMPONENTS == <<1, 2>>
ALL_PREVIEWS == <<1>>

\* ComponentRegistry::new()
ComponentRegistry == [components |-> <<>>, previews |-> <<>>]

\* HashMap::insert
insert(map, key, value) ==
    [k \in DOMAIN map \cup {key} |-> IF k = key THEN value ELSE map[k]]

\* A lookup that finds nothing.
get_nothing(map, key) == 0

\* HashMap::get(key).cloned(): 0 is None.
get(map, key) == IF key \in DOMAIN map THEN map[key] ELSE 0

\* A registration that leaves out what the list already holds.
register_component_once(data, t) ==
    IF \E k \in 1..Len(data.components) :
            data.components[k] = <<type_scope(t), type_name(t), type_description(t)>>
    THEN data
    ELSE [data EXCEPT !.components = Append(@, <<type_scope(t), type_name(t), type_description(t)>>)]

\* register_component::<T>(): (T::scope(), T::name(), T::description()) is
\* pushed onto the list.
register_component(data, t) ==
    [data EXCEPT !.components = Append(@, <<type_scope(t), type_name(t), type_description(t)>>)]

\* register_preview::<T>(): T::preview is inserted under T::name().
register_preview(data, t) ==
    [data EXCEPT !.previews = insert(@, type_name(t), t)]

\* for f in fns { f() }
RECURSIVE RunAll(_, _, _)
RunAll(data, fns, preview) ==
    IF fns = <<>> THEN data
    ELSE RunAll(IF preview THEN register_preview(data, Head(fns))
                ELSE register_component(data, Head(fns)),
                Tail(fns), preview)

\* init(): the collected component registrations, then the collected
\* preview registrations.
init(data) == RunAll(RunAll(data, ALL_COMPONENTS, FALSE), ALL_PREVIEWS, TRUE)

\* AllComponents::add
add(all_components, id, metadata) == insert(all_components, id, metadata)

\* components(): the list is walked from its first entry, each entry added
\* under its name with the preview the map holds for that name.
RECURSIVE AddFrom(_, _, _)
AddFrom(all_components, data, k) ==
    IF k > Len(data.components) THEN all_components
    ELSE LET entry == data.components[k] IN
         AddFrom(add(all_components, entry[2],
                     [name |-> entry[2], scope |-> entry[1],
                      description |-> entry[3],
                      preview |-> get(data.previews, entry[2])]),
                 data, k + 1)

components(data) == AddFrom(<<>>, data, 1)

\* AllComponents::all
all(all_components) == {all_components[id] : id \in DOMAIN all_components}

\* AllComponents::all_previews
all_previews(all_components) == {c \in all(all_components) : c.preview # 0}

\* init() is called.
call_init ==
    /\ inits < MaxInits
    /\ inits' = inits + 1
    /\ was' = component_data
    /\ component_data' = init(component_data)
    /\ rlog' = Append(rlog, [op |-> "init", t |-> 0])
    /\ UNCHANGED NotRegistry

\* The calls made one by one that the log holds.
Manual == SelectSeq(rlog, LAMBDA c : c.op # "init")

\* register_component::<T>() is called outside init().
call_register_component ==
    /\ Len(Manual) < MaxRegistrations
    /\ \E t \in ComponentTypes :
        /\ component_data' = register_component(component_data, t)
        /\ rlog' = Append(rlog, [op |-> "register_component", t |-> t])
    /\ was' = component_data
    /\ UNCHANGED inits
    /\ UNCHANGED NotRegistry

\* register_preview::<T>() is called outside init().
call_register_preview ==
    /\ Len(Manual) < MaxRegistrations
    /\ \E t \in ComponentTypes :
        /\ component_data' = register_preview(component_data, t)
        /\ rlog' = Append(rlog, [op |-> "register_preview", t |-> t])
    /\ was' = component_data
    /\ UNCHANGED inits
    /\ UNCHANGED NotRegistry

\* ------------------------------------------ the notification bridge (4.4)

\* A send that fails when an earlier notification is still buffered.
unbounded_send_lossy(n) == IF rx /\ ~closed /\ n = 0 THEN n + 1 ELSE n

\* The callback notifications() registers with cx.observe:
\* let _ = tx.unbounded_send(()). The send fails, and the failure is
\* dropped, once the channel is closed or its receiver is gone.
unbounded_send(n) == IF rx /\ ~closed THEN n + 1 ELSE n

\* TestAppContext::notifications(entity): an unbounded channel whose sender
\* is fed by an observer of the entity and closed by an observer of its
\* release; both observers are detached, the receiver is returned.
notifications == [observing |-> TRUE, rx |-> TRUE, closed |-> FALSE, chan |-> 0]

\* A send into a channel that takes whatever it is given.
try_send_unbounded(n) == n + 1

\* The callback next_notification() registers with cx.observe:
\* tx.try_send(()).ok(). The send fails, and the failure is dropped, when the
\* channel is full.
try_send(n) == IF n < NotificationCapacity THEN n + 1 ELSE n

\* A test has something registered on the entity, or has had.
Started ==
    \/ wstate # "none"
    \/ nstate # "none"
    \/ sstate # "none"
    \/ estate # "none"
    \/ vstate # "none"

\* The entity is updated and notifies: its observers run.
notify ==
    /\ Started
    /\ alive
    /\ count < MaxNotify
    /\ count' = count + 1
    /\ chan' = IF observing THEN unbounded_send(chan) ELSE chan
    /\ nchan' = IF nsub THEN try_send(nchan) ELSE nchan
    /\ UNCHANGED <<nstate, nsub, ntx, ntimer, noutcomes>>
    /\ UNCHANGED <<alive, truthy, observing, closed, rx, ctimer, wstate,
                   outcomes, consumed, evals, atEnd, ci, budget, elapsed>>
    /\ UNCHANGED bridgeVars
    /\ UNCHANGED schedVars
    /\ UNCHANGED <<borrowVars, extVars>>

\* A release observer that does not close the channel.
close_channel_forgotten == closed

\* The callback notifications() registers with cx.observe_release:
\* tx.close_channel(); what it leaves in the channel's closed flag.
close_channel == TRUE

\* The entity is released: its release observers run and its observers go
\* with it.
release ==
    /\ Started
    /\ alive
    /\ alive' = FALSE
    /\ closed' = IF observing THEN close_channel ELSE closed
    /\ observing' = FALSE
    /\ nsub' = FALSE
    /\ ntx' = FALSE
    /\ esub' = FALSE
    /\ vsub' = FALSE
    /\ vtx' = FALSE
    /\ UNCHANGED <<nstate, nchan, ntimer, noutcomes>>
    /\ UNCHANGED <<sstate, sbase, taken, ends, estate, ebuf, emitted, ebase,
                   received, vstate, vslot, vcalls, vsent, vgot>>
    /\ UNCHANGED <<count, truthy, chan, rx, ctimer, wstate, outcomes,
                   consumed, evals, atEnd, ci, budget, elapsed>>
    /\ UNCHANGED schedVars
    /\ UNCHANGED <<borrowVars, extVars>>

\* ---------------------------------------------- the condition waiter (4.3)

\* A second of the test clock passes.
clock_passes ==
    /\ ctimer # "none" \/ ntimer # "none"
    /\ elapsed < MaxClock
    /\ elapsed' = elapsed + 1
    /\ UNCHANGED <<alive, count, truthy, observing, chan, closed, rx, ctimer,
                   wstate, outcomes, consumed, evals, atEnd, ci, budget>>
    /\ UNCHANGED notifVars
    /\ UNCHANGED bridgeVars
    /\ UNCHANGED schedVars
    /\ UNCHANGED <<borrowVars, extVars>>

\* The test clock has passed the deadline of the timer condition() holds:
\* the timer is ready and wakes the waiter.
timer_fires ==
    /\ ctimer = "armed"
    /\ elapsed >= budget
    /\ ctimer' = "fired"
    /\ UNCHANGED <<alive, count, truthy, observing, chan, closed, rx, wstate,
                   outcomes, consumed, evals, atEnd, ci, budget, elapsed>>
    /\ UNCHANGED notifVars
    /\ UNCHANGED bridgeVars
    /\ UNCHANGED schedVars
    /\ UNCHANGED <<borrowVars, extVars>>

\* model.update(self, &mut predicate): the predicate on the entity's state
\* as it is now; the update of a released entity is fatal.
Evaluate(predicate) ==
    IF ~alive THEN "released"
    ELSE IF count \in predicate THEN "true"
    ELSE "false"

\* The loop of condition(), polled: w is the stream and the waiter's
\* counters, w.result how the loop ended ("pending": suspended in
\* notifications.next()).
RECURSIVE LoopTop(_, _)
RECURSIVE NextNotification(_, _)

\* The loop returning Ok(()) without looking at what the predicate says.
LoopTop_unchecked(w, predicate) ==
    [w EXCEPT !.evals = @ + 1,
              !.result = IF Evaluate(predicate) = "released" THEN "dropped" ELSE "resolved"]

LoopTop(w, predicate) ==
    LET v == [w EXCEPT !.evals = @ + 1] IN
    IF Evaluate(predicate) = "released" THEN [v EXCEPT !.result = "dropped"]
    ELSE IF Evaluate(predicate) = "true" THEN [v EXCEPT !.result = "resolved"]
    ELSE NextNotification(v, predicate)

\* next() taking everything that is buffered as one notification.
NextNotification_coalesced(w, predicate) ==
    IF w.chan > 0
        THEN LoopTop([w EXCEPT !.chan = 0, !.consumed = @ + 1], predicate)
    ELSE IF closed THEN [w EXCEPT !.result = "dropped"]
    ELSE [w EXCEPT !.result = "pending"]

\* notifications.next().await: a buffered notification, else the end of a
\* closed stream ("model dropped"), else the waiter stays suspended.
NextNotification(w, predicate) ==
    IF w.chan > 0
        THEN LoopTop([w EXCEPT !.chan = @ - 1, !.consumed = @ + 1], predicate)
    ELSE IF closed THEN [w EXCEPT !.result = "dropped"]
    ELSE [w EXCEPT !.result = "pending"]

\* The loop awaited alone, the timer never polled.
Race_without_timer(w, loopResult, timerFirst) == loopResult

\* The race reporting the timer's end as the stream's end.
Race_timer_reports_dropped(w, loopResult, timerFirst) ==
    IF timerFirst /\ ctimer = "fired" THEN [w EXCEPT !.result = "dropped"]
    ELSE IF loopResult.result # "pending" THEN loopResult
    ELSE IF ctimer = "fired" THEN [loopResult EXCEPT !.result = "dropped"]
    ELSE loopResult

\* loop.race(timer.map(|_| Err("condition timed out"))): the two futures are
\* polled in either order (timerFirst) and the first one found ready decides;
\* the other is not polled.
Race(w, loopResult, timerFirst) ==
    IF timerFirst /\ ctimer = "fired" THEN [w EXCEPT !.result = "timed_out"]
    ELSE IF loopResult.result # "pending" THEN loopResult
    ELSE IF ctimer = "fired" THEN [loopResult EXCEPT !.result = "timed_out"]
    ELSE loopResult

\* The waiter as the poll finds it.
Waiter == [chan |-> chan, consumed |-> consumed, evals |-> evals, result |-> "pending"]

\* The end of a wait that leaves its timer running.
Polled_keeps_timer(w, armed) ==
    /\ consumed' = w.consumed
    /\ evals' = w.evals
    /\ IF w.result = "pending"
       THEN /\ chan' = w.chan
            /\ rx' = TRUE
            /\ wstate' = "waiting"
            /\ ctimer' = armed
            /\ UNCHANGED <<outcomes, atEnd>>
       ELSE /\ chan' = 0
            /\ rx' = FALSE
            /\ wstate' = "done"
            /\ ctimer' = IF armed = "fired" THEN "dropped" ELSE "armed"
            /\ outcomes' = outcomes \cup {w.result}
            /\ atEnd' = [count |-> count, fired |-> ctimer = "fired", alive |-> alive]

\* What a poll of condition() leaves: the wait still suspended, or ended
\* with one outcome, the stream and the timer dropped with the future.
Polled(w, armed) ==
    /\ consumed' = w.consumed
    /\ evals' = w.evals
    /\ IF w.result = "pending"
       THEN /\ chan' = w.chan
            /\ rx' = TRUE
            /\ wstate' = "waiting"
            /\ ctimer' = armed
            /\ UNCHANGED <<outcomes, atEnd>>
       ELSE /\ chan' = 0
            /\ rx' = FALSE
            /\ wstate' = "done"
            /\ ctimer' = "dropped"
            /\ outcomes' = outcomes \cup {w.result}
            /\ atEnd' = [count |-> count, fired |-> ctimer = "fired", alive |-> alive]

\* The duration of a timer that follows the environment.
condition_timeout_from_env(env) ==
    IF env THEN NotificationTimeoutCI ELSE NotificationTimeout

\* self.executor().timer(Duration::from_secs(3)): the duration of the timer
\* condition() sets, whatever the environment.
condition_timeout(env) == ConditionTimeout

\* TestAppContext::condition(model, predicate), up to its first suspension:
\* the timer is set, the stream is opened, and the race is polled once.
condition ==
    /\ ~Started
    /\ alive
    /\ \E env \in BOOLEAN :
        /\ ci' = env
        /\ budget' = condition_timeout(env)
    /\ elapsed' = 0
    /\ \E p \in SUBSET (0..MaxNotify), timerFirst \in BOOLEAN :
        /\ truthy' = p
        /\ LET start == [Waiter EXCEPT !.chan = notifications.chan] IN
           Polled(Race(start, LoopTop(start, p), timerFirst), "armed")
    /\ observing' = notifications.observing
    /\ closed' = notifications.closed
    /\ UNCHANGED <<alive, count>>
    /\ UNCHANGED notifVars
    /\ UNCHANGED bridgeVars
    /\ UNCHANGED schedVars
    /\ UNCHANGED <<borrowVars, extVars>>

\* The suspended condition() is polled again.
poll ==
    /\ wstate = "waiting"
    /\ \E timerFirst \in BOOLEAN :
        Polled(Race(Waiter, NextNotification(Waiter, truthy), timerFirst), ctimer)
    /\ UNCHANGED <<alive, count, truthy, observing, closed, ci, budget, elapsed>>
    /\ UNCHANGED notifVars
    /\ UNCHANGED bridgeVars
    /\ UNCHANGED schedVars
    /\ UNCHANGED <<borrowVars, extVars>>

\* ------------------------------------------------ Model::next_notification

\* The wait's variables next_notification leaves alone.
conditionVars == <<truthy, observing, chan, closed, rx, ctimer, wstate, outcomes,
                   consumed, evals, atEnd>>

\* let duration = if std::env::var("CI").is_ok() { 5 s } else { 1 s }
duration(env) == IF env THEN NotificationTimeoutCI ELSE NotificationTimeout

\* Model::next_notification(cx): the channel is made, the observer is
\* registered under a borrow of the application state, the duration is
\* chosen, and the future that holds the receiver and the subscription is
\* returned, not yet polled.
next_notification ==
    /\ ~Started
    /\ alive
    /\ nstate' = "created"
    /\ nsub' = TRUE
    /\ ntx' = TRUE
    /\ nchan' = 0
    /\ \E env \in BOOLEAN :
        /\ ci' = env
        /\ budget' = duration(env)
    /\ UNCHANGED <<ntimer, noutcomes, alive, count, elapsed>>
    /\ UNCHANGED conditionVars
    /\ UNCHANGED bridgeVars
    /\ UNCHANGED schedVars
    /\ UNCHANGED <<borrowVars, extVars>>

\* The timeout of next_notification has run its duration.
timeout_elapses ==
    /\ ntimer = "armed"
    /\ elapsed >= budget
    /\ ntimer' = "fired"
    /\ UNCHANGED <<nstate, nsub, ntx, nchan, noutcomes>>
    /\ UNCHANGED <<alive, count, ci, budget, elapsed>>
    /\ UNCHANGED conditionVars
    /\ UNCHANGED bridgeVars
    /\ UNCHANGED schedVars
    /\ UNCHANGED <<borrowVars, extVars>>

\* rx.recv(), polled: a buffered notification, else the end of a channel
\* whose sender is gone, else nothing yet.
recv == IF nchan > 0 THEN "some" ELSE IF ~ntx THEN "none" ELSE "pending"

\* The body of the future with drop(subscription) left out.
Resume_keeps_subscription(timedOut, notification) ==
    IF timedOut THEN [outcome |-> "timed_out", nsub |-> FALSE]
    ELSE IF notification = "none" THEN [outcome |-> "dropped", nsub |-> nsub]
    ELSE [outcome |-> "resolved", nsub |-> nsub]

\* The body of the future once timeout(duration, rx.recv()) is ready:
\* .expect("next notification timed out") panics on the timeout, and the
\* unwinding drops what the future holds; otherwise drop(subscription), then
\* notification.expect("model dropped ...") panics on the end of the channel.
Resume(timedOut, notification) ==
    IF timedOut THEN [outcome |-> "timed_out", nsub |-> FALSE]
    ELSE IF notification = "none" THEN [outcome |-> "dropped", nsub |-> FALSE]
    ELSE [outcome |-> "resolved", nsub |-> FALSE]

\* The future of next_notification is polled: on its first poll the timeout
\* is set; the timeout and the receiver are polled in either order
\* (timerFirst) and the first one found ready decides.
poll_notification ==
    /\ nstate \in {"created", "waiting"}
    /\ \E timerFirst \in BOOLEAN :
        LET fired == ntimer = "fired"
            ended == (timerFirst /\ fired) \/ recv # "pending" \/ fired
            timedOut == (timerFirst /\ fired) \/ recv = "pending"
            r == Resume(timedOut, recv)
        IN
        IF ended
        THEN /\ nstate' = "done"
             /\ noutcomes' = noutcomes \cup {r.outcome}
             /\ nsub' = r.nsub
             /\ ntx' = IF r.nsub THEN ntx ELSE FALSE
             /\ nchan' = 0
             /\ ntimer' = "dropped"
             /\ atEnd' = [count |-> count, fired |-> fired, alive |-> alive]
             /\ UNCHANGED elapsed
        ELSE /\ nstate' = "waiting"
             /\ ntimer' = IF nstate = "created" THEN "armed" ELSE ntimer
             /\ elapsed' = IF nstate = "created" THEN 0 ELSE elapsed
             /\ UNCHANGED <<noutcomes, nsub, ntx, nchan, atEnd>>
    /\ UNCHANGED <<alive, count, ci, budget>>
    /\ UNCHANGED <<truthy, observing, chan, closed, rx, ctimer, wstate, outcomes,
                   consumed, evals>>
    /\ UNCHANGED bridgeVars
    /\ UNCHANGED schedVars
    /\ UNCHANGED <<borrowVars, extVars>>

\* ------------------------------------- a stream of notifications(), read

\* What the streams and receivers below leave alone.
waitVars == <<truthy, ctimer, wstate, outcomes, consumed, evals, atEnd, ci,
              budget, elapsed>>

\* The entity notifies while nothing of the test observes it yet.
notify_early ==
    /\ ~Started
    /\ alive
    /\ emitted = <<>>
    /\ count < MaxNotify
    /\ count' = count + 1
    /\ UNCHANGED <<alive, observing, chan, closed, rx>>
    /\ UNCHANGED <<waitVars, notifVars, bridgeVars>>
    /\ UNCHANGED schedVars
    /\ UNCHANGED <<borrowVars, extVars>>

\* The test calls notifications(entity) and keeps the stream it returns.
notifications_stream ==
    /\ ~Started
    /\ alive
    /\ observing' = notifications.observing
    /\ rx' = notifications.rx
    /\ closed' = notifications.closed
    /\ chan' = notifications.chan
    /\ sstate' = "open"
    /\ sbase' = count
    /\ UNCHANGED <<taken, ends, estate, esub, ebuf, emitted, ebase, received,
                   vstate, vsub, vtx, vslot, vcalls, vsent, vgot>>
    /\ UNCHANGED <<alive, count>>
    /\ UNCHANGED <<waitVars, notifVars>>
    /\ UNCHANGED schedVars
    /\ UNCHANGED <<borrowVars, extVars>>

\* The consumer's stream.next().await is ready: it takes a buffered item,
\* or, the buffer empty and the channel closed, it is handed the end of the
\* stream and stops reading.
stream_next ==
    /\ sstate = "open"
    /\ chan > 0 \/ closed
    /\ IF chan > 0
       THEN /\ chan' = chan - 1
            /\ taken' = taken + 1
            /\ UNCHANGED <<sstate, ends>>
       ELSE /\ sstate' = "ended"
            /\ ends' = ends + 1
            /\ UNCHANGED <<chan, taken>>
    /\ UNCHANGED <<sbase, estate, esub, ebuf, emitted, ebase, received,
                   vstate, vsub, vtx, vslot, vcalls, vsent, vgot>>
    /\ UNCHANGED <<alive, count, observing, closed, rx>>
    /\ UNCHANGED <<waitVars, notifVars>>
    /\ UNCHANGED schedVars
    /\ UNCHANGED <<borrowVars, extVars>>

\* ------------------------------------------------------------- events()

\* A send that fails when an earlier event is still buffered.
send_event_bounded(buf, event) == IF buf = <<>> THEN <<event>> ELSE buf

\* The callback events() registers with cx.subscribe:
\* let _ = tx.unbounded_send(event.clone()).
send_event(buf, event) == Append(buf, event)

\* TestAppContext::events(entity): an unbounded channel whose sender is fed
\* by a detached subscription to the entity's events; the receiver is
\* returned.
events ==
    /\ ~Started
    /\ alive
    /\ estate' = "open"
    /\ esub' = TRUE
    /\ ebuf' = <<>>
    /\ ebase' = Len(emitted)
    /\ UNCHANGED <<sstate, sbase, taken, ends, emitted, received,
                   vstate, vsub, vtx, vslot, vcalls, vsent, vgot>>
    /\ UNCHANGED <<alive, count, observing, chan, closed, rx>>
    /\ UNCHANGED <<waitVars, notifVars>>
    /\ UNCHANGED schedVars
    /\ UNCHANGED <<borrowVars, extVars>>

\* The consumer takes the next event from the receiver.
recv_event ==
    /\ estate = "open"
    /\ ebuf # <<>>
    /\ received' = Append(received, Head(ebuf))
    /\ ebuf' = Tail(ebuf)
    /\ UNCHANGED <<sstate, sbase, taken, ends, estate, esub, emitted, ebase,
                   vstate, vsub, vtx, vslot, vcalls, vsent, vgot>>
    /\ UNCHANGED <<alive, count, observing, chan, closed, rx>>
    /\ UNCHANGED <<waitVars, notifVars>>
    /\ UNCHANGED schedVars
    /\ UNCHANGED <<borrowVars, extVars>>

\* ------------------------------------------------------ Model::next_event

\* The callback next_event() registers with cx.subscribe:
\* if let Some(tx) = tx.take() { _ = tx.send(event.clone()) }.
Callback(event) ==
    IF vtx THEN [slot |-> <<event>>, tx |-> FALSE, sent |-> vsent + 1]
    ELSE [slot |-> vslot, tx |-> FALSE, sent |-> vsent]

\* Model::next_event(cx): a oneshot channel, a subscription whose callback
\* owns the sender, and the future that holds the receiver and the
\* subscription, returned not yet polled.
next_event ==
    /\ ~Started
    /\ alive
    /\ vstate' = "created"
    /\ vsub' = TRUE
    /\ vtx' = TRUE
    /\ vslot' = <<>>
    /\ ebase' = Len(emitted)
    /\ UNCHANGED <<sstate, sbase, taken, ends, estate, esub, ebuf, emitted,
                   received, vcalls, vsent, vgot>>
    /\ UNCHANGED <<alive, count, observing, chan, closed, rx>>
    /\ UNCHANGED <<waitVars, notifVars>>
    /\ UNCHANGED schedVars
    /\ UNCHANGED <<borrowVars, extVars>>

\* The future ending without drop(subscription).
Received_keeps_subscription == vsub

\* drop(subscription), once rx.await has given the event: what it leaves of
\* the registration.
Received == FALSE

\* The future of next_event is polled with its receiver ready: the event
\* that was sent, or, the sender dropped unsent,
\* .expect("no event emitted") panics.
poll_event ==
    /\ vstate = "created"
    /\ vslot # <<>> \/ ~vtx
    /\ IF vslot # <<>>
       THEN /\ vstate' = "done"
            /\ vgot' = vslot
            /\ vsub' = Received
       ELSE /\ vstate' = "failed"
            /\ vsub' = FALSE
            /\ UNCHANGED vgot
    /\ vslot' = <<>>
    /\ UNCHANGED <<sstate, sbase, taken, ends, estate, esub, ebuf, emitted,
                   ebase, received, vtx, vcalls, vsent>>
    /\ UNCHANGED <<alive, count, observing, chan, closed, rx>>
    /\ UNCHANGED <<waitVars, notifVars>>
    /\ UNCHANGED schedVars
    /\ UNCHANGED <<borrowVars, extVars>>

\* The entity emits an event: the callbacks subscribed to it run.
emit ==
    /\ alive
    /\ Len(emitted) < MaxEmit
    /\ (~Started /\ count = 0) \/ estate # "none" \/ vstate # "none"
    /\ \E event \in Events :
        /\ emitted' = Append(emitted, event)
        /\ ebuf' = IF esub THEN send_event(ebuf, event) ELSE ebuf
        /\ IF vsub
           THEN /\ vcalls' = vcalls + 1
                /\ vslot' = Callback(event).slot
                /\ vtx' = Callback(event).tx
                /\ vsent' = Callback(event).sent
           ELSE UNCHANGED <<vcalls, vslot, vtx, vsent>>
    /\ UNCHANGED <<sstate, sbase, taken, ends, estate, esub, ebase, received,
                   vstate, vsub, vgot>>
    /\ UNCHANGED <<alive, count, observing, chan, closed, rx>>
    /\ UNCHANGED <<waitVars, notifVars>>
    /\ UNCHANGED schedVars
    /\ UNCHANGED <<borrowVars, extVars>>

\* --------------------------------------------------------- specification

Init ==
    /\ pc = "idle"
    /\ cont = "return"
    /\ queue = EmptyQueue
    /\ delayed = 0
    /\ ticks = 0
    /\ owed = 0
    /\ log = <<>>
    /\ op = NoOp
    /\ quiet = FALSE
    /\ atParked = <<>>
    /\ alive = TRUE
    /\ count = 0
    /\ truthy = {}
    /\ observing = FALSE
    /\ chan = 0
    /\ closed = FALSE
    /\ rx = FALSE
    /\ ctimer = "none"
    /\ wstate = "none"
    /\ outcomes = {}
    /\ consumed = 0
    /\ evals = 0
    /\ atEnd = [count |-> 0, fired |-> FALSE, alive |-> TRUE]
    /\ ci = FALSE
    /\ budget = 0
    /\ elapsed = 0
    /\ nstate = "none"
    /\ nsub = FALSE
    /\ ntx = FALSE
    /\ nchan = 0
    /\ ntimer = "none"
    /\ noutcomes = {}
    /\ sstate = "none"
    /\ sbase = 0
    /\ taken = 0
    /\ ends = 0
    /\ estate = "none"
    /\ esub = FALSE
    /\ ebuf = <<>>
    /\ emitted = <<>>
    /\ ebase = 0
    /\ received = <<>>
    /\ vstate = "none"
    /\ vsub = FALSE
    /\ vtx = FALSE
    /\ vslot = <<>>
    /\ vcalls = 0
    /\ vsent = 0
    /\ vgot = <<>>
    /\ held = 0
    /\ should_close_handler = <<>>
    /\ windowOpen = TRUE
    /\ cpos = "idle"
    /\ chandler = <<>>
    /\ cshould = FALSE
    /\ cret = "none"
    /\ cinvoked = <<>>
    /\ cbefore = <<>>
    /\ wbefore = TRUE
    /\ cruns = [i \in 1..MaxInstalls |-> 0]
    /\ ccalls = 0
    /\ cinstalls = 0
    /\ mexists = TRUE
    /\ sign_in_status = "Idle"
    /\ current_user = FALSE
    /\ auths = <<>>
    /\ signIns = 0
    /\ rendered = "none"
    /\ accepts = <<>>
    /\ acceptsStarted = 0
    /\ alog = <<>>
    /\ provider = "unset"
    /\ settingsWrites = 0
    /\ dismissEvents = 0
    /\ ctxs = [i \in 1..MaxContexts |-> "none"]
    /\ on_quit = <<>>
    /\ qlog = <<>>
    /\ qcalls = 0
    /\ uaf = 0
    /\ component_data = ComponentRegistry
    /\ inits = 0
    /\ rlog = <<>>
    /\ was = ComponentRegistry
    /\ bop = "none"
    /\ bat = "none"

Next ==
    \/ spawn
    \/ timer
    \/ advance_clock
    \/ run_until_parked
    \/ visual_run_until_parked
    \/ Tick
    \/ Parked
    \/ proceed
    \/ simulate_keystrokes
    \/ simulate_input
    \/ simulate_event
    \/ simulate_click
    \/ simulate_click_up

\* The scheduler and the event injector.
Spec == Init /\ [][Next]_vars

\* The scheduler with the operations that take no string.
DrainNext ==
    \/ spawn
    \/ timer
    \/ advance_clock
    \/ run_until_parked
    \/ visual_run_until_parked
    \/ Tick
    \/ Parked
    \/ proceed
    \/ simulate_event
    \/ simulate_click
    \/ simulate_click_up

\* The drain loop keeps running while it has a task to run, and returns to
\* its caller when it has none.
FairSpec ==
    /\ Init
    /\ [][DrainNext]_vars
    /\ WF_vars(Tick)
    /\ WF_vars(Parked)
    /\ WF_vars(simulate_click_up)

CondNext ==
    \/ condition
    \/ notify
    \/ release
    \/ clock_passes
    \/ timer_fires
    \/ poll
    \/ next_notification
    \/ timeout_elapses
    \/ poll_notification

\* The condition waiter and the notification bridge.
CondSpec == Init /\ [][CondNext]_vars

\* A waiter that has been woken is polled.
FairCondSpec == CondSpec /\ WF_vars(poll)

\* A timer whose deadline the clock has passed fires, and the waiter it wakes
\* is polled.
FairTimerSpec ==
    /\ CondSpec
    /\ WF_vars(timer_fires)
    /\ WF_vars(poll)
    /\ WF_vars(timeout_elapses)
    /\ WF_vars(poll_notification)

BridgeNext ==
    \/ notify_early
    \/ notifications_stream
    \/ notify
    \/ release
    \/ stream_next
    \/ events
    \/ emit
    \/ recv_event
    \/ next_event
    \/ poll_event

\* The notification bridge read by the test, events() and next_event().
BridgeSpec == Init /\ [][BridgeNext]_vars

\* A consumer awaiting a stream that is ready is resumed.
FairBridgeSpec == BridgeSpec /\ WF_vars(stream_next)

BorrowNext ==
    \/ spawn
    \/ borrow_app
    \/ callback_runs
    \/ callback_reenters
    \/ release_guard
    \/ after_borrow
    \/ resume
    \/ Tick
    \/ Parked
    \/ proceed

\* The operations that borrow the application state, with the scheduler.
BorrowSpec == Init /\ [][BorrowNext]_vars

CloseNext ==
    \/ set_should_close_handler
    \/ close_begin
    \/ close_take
    \/ close_invoke
    \/ close_install

\* simulate_close on a window whose handler the application installs.
CloseSpec == Init /\ [][CloseNext]_vars

ModalNext ==
    \/ render
    \/ user_store_updates
    \/ sign_in
    \/ authenticate_and_connect
    \/ sign_in_resumes
    \/ accept_and_enable
    \/ accept_terms_of_service
    \/ accept_resumes
    \/ cancel

\* The onboarding modal, the user store and the client.
ModalSpec == Init /\ [][ModalNext]_vars

\* A task whose await has completed is resumed.
FairModalSpec == ModalSpec /\ WF_vars(sign_in_resumes)

QuitNext ==
    \/ as_mut
    \/ register_cleanup
    \/ quit
    \/ use_context

\* The contexts a test retains with as_mut, and quit.
QuitSpec == Init /\ [][QuitNext]_vars

RegistryNext ==
    \/ call_init
    \/ call_register_component
    \/ call_register_preview

\* The component registry and the calls that fill it.
RegistrySpec == Init /\ [][RegistryNext]_vars

\* ------------------------------------------------------------ properties

Drains == {"run_until_parked", "visual_run_until_parked"}

C3_SecondDrainIdle ==
    (op.name \in Drains /\ op.clean) =>
        (ticks = 0 /\ owed = 0 /\ SchedulerState = atParked)

\* The second of two drains in succession has returned.
C3_Witness ==
    /\ pc = "returned"
    /\ op.name \in Drains
    /\ op.clean

\* Every piece parses.
AllValid(pieces) == \A i \in 1..Len(pieces) : Parse(pieces[i]).ok

\* The key-down of each piece, in order.
KeyDowns(pieces) == [i \in 1..Len(pieces) |-> KeyDown(Parse(pieces[i]))]

\* The number of occurrences of c in s.
Occurrences(s, c) == Cardinality({i \in 1..Len(s) : s[i] = c})

\* C4: for a string of n valid space-separated tokens simulate_keystrokes
\* dispatches n keystrokes, those of the tokens from left to right, and then
\* drains the scheduler once: no drain between two keystrokes.
C4_KeystrokesInOrderThenDrain ==
    (op.name = "simulate_keystrokes" /\ AllValid(Split(op.arg, " "))) =>
        /\ pc \in {"draining", "returned"}
        /\ Len(log) = Occurrences(op.arg, " ") + 2
        /\ log = KeyDowns(Split(op.arg, " ")) \o <<Drain>>

\* simulate_keystrokes has returned from a string of two different keys.
C4_Witness ==
    /\ pc = "returned"
    /\ op.name = "simulate_keystrokes"
    /\ Len(log) = 3
    /\ log[1].key # log[2].key
    /\ log[1].key # <<>>
    /\ log[2].key # <<>>

MouseDown == Input("mouse_down")
MouseUp == Input("mouse_up")

\* C5, as claimed: simulate_click feeds mouse-down, then mouse-up, and the
\* scheduler is drained once, after both.
C5_ClickDrainsOnce ==
    (pc = "returned" /\ op.name = "simulate_click") =>
        log = <<MouseDown, MouseUp, Drain>>

\* C5: simulate_click feeds mouse-down, then mouse-up, and the scheduler is
\* drained after each of them: the mouse-up is fed only once the drain that
\* follows the mouse-down has returned.
C5_ClickDrainsAfterEach ==
    (op.name = "simulate_click") =>
        /\ pc \in {"draining", "returned"}
        /\ \/ log = <<MouseDown, Drain>> /\ pc = "draining" /\ cont = "click_up"
           \/ log = <<MouseDown, Drain, MouseUp, Drain>> /\ cont = "return"

\* simulate_click has returned.
C5_Witness ==
    /\ pc = "returned"
    /\ op.name = "simulate_click"
    /\ ticks >= 2

\* The characters of s, one string per character.
Chars(s) == [i \in 1..Len(s) |-> <<s[i]>>]

\* C6, as claimed: simulate_input(s) dispatches one keystroke per character
\* of s, in order, and nothing else, and then drains the scheduler once.
C6_InputIsItsCharacters ==
    (pc = "returned" /\ op.name = "simulate_input") =>
        log = KeyDowns(Chars(op.arg)) \o <<Drain>>

\* The index of the first piece that does not parse, or 0.
RECURSIVE FirstMalformed(_, _)
FirstMalformed(pieces, i) ==
    IF i > Len(pieces) THEN 0
    ELSE IF ~Parse(pieces[i]).ok THEN i
    ELSE FirstMalformed(pieces, i + 1)

\* The pieces the last operation cut its string into.
Pieces ==
    IF op.name = "simulate_keystrokes" THEN Split(op.arg, " ")
    ELSE IF op.name = "simulate_input" THEN SplitEmpty(op.arg)
    ELSE <<>>

\* C7: when a piece of the string does not parse, simulate_keystrokes (and
\* simulate_input) panics: it does not return and does not drain, and what
\* reached the window are keystrokes of well-formed pieces only, never the
\* malformed one.
C7_MalformedIsFatal ==
    (FirstMalformed(Pieces, 1) > 0) =>
        /\ pc = "panicked"
        /\ \A i \in 1..Len(log) :
            /\ log[i].kind = "key_down"
            /\ Parse(Pieces[i]).ok
            /\ log[i] = KeyDown(Parse(Pieces[i]))
        /\ Len(log) < FirstMalformed(Pieces, 1)

\* simulate_keystrokes has panicked at a malformed token that followed a
\* well-formed one.
C7_Witness ==
    /\ pc = "panicked"
    /\ op.name = "simulate_keystrokes"
    /\ FirstMalformed(Pieces, 1) = 2
    /\ Len(log) = 1

\* The predicate is false until the entity has notified k times and true
\* from then on.
Threshold(k) == k \in 1..MaxNotify /\ truthy = k..MaxNotify

Resolved == wstate = "done" /\ outcomes = {"resolved"}

\* C8, as claimed: with a predicate that becomes true at the k-th
\* notification, condition() resolves at the check that follows the k-th
\* notification it has taken from the stream.
C8_ResolvesAtKthObserved ==
    \A k \in 1..MaxNotify : (Threshold(k) /\ Resolved) => consumed = k

\* C8: with a predicate that becomes true at the k-th notification,
\* condition() does not resolve while the entity has notified fewer than k
\* times, resolves at a check that follows a notification it took from the
\* stream, the k-th at the latest, and is never left suspended on an empty
\* stream once the entity has notified k times.
C8_ResolvesAtFirstCheckAfterKth ==
    \A k \in 1..MaxNotify :
        Threshold(k) =>
            /\ Resolved =>
                /\ atEnd.count >= k
                /\ consumed >= 1
                /\ consumed <= k
                /\ evals = consumed + 1
            /\ (wstate = "waiting" /\ alive /\ count >= k) => chan > 0

\* A wait for the third notification resolved at the check after the third
\* notification taken.
C8_Witness ==
    /\ Threshold(3)
    /\ Resolved
    /\ consumed = 3
    /\ atEnd.count = 3

\* C9, as claimed: a wait whose entity was released before the predicate
\* held ends with "model dropped", never with "condition timed out".
C9_ReleasedEndsDropped ==
    (wstate = "done" /\ ~atEnd.alive) => outcomes = {"dropped"}

\* C9: a wait whose entity is released before the predicate held does not
\* hang and does not resolve: it ends with the dropped failure, or, when the
\* timer too has fired by the time the waiter is polled, with either the
\* dropped or the timed-out failure.
C9_ReleasedEndsFatal ==
    /\ [](  (wstate = "done" /\ ~atEnd.alive) =>
                \/ outcomes = {"dropped"}
                \/ outcomes = {"timed_out"} /\ atEnd.fired)
    /\ (wstate = "waiting" /\ ~alive) ~> (wstate = "done")

\* A wait ended "model dropped": the entity was released with the timer
\* still running.
C9_Witness ==
    /\ wstate = "done"
    /\ outcomes = {"dropped"}
    /\ ~atEnd.alive
    /\ ~atEnd.fired

\* C10: a wait ends with exactly one of resolved, timed-out and dropped,
\* never with two of them, and it does end once the timer has fired.
C10_ExactlyOneOutcome ==
    /\ [](  /\ outcomes \subseteq {"resolved", "timed_out", "dropped"}
            /\ Cardinality(outcomes) <= 1
            /\ (wstate = "done") <=> (Cardinality(outcomes) = 1))
    /\ (wstate = "waiting" /\ ctimer = "fired") ~> (wstate = "done")

\* A wait ended by its timer, the entity alive and the predicate false.
C10_Witness ==
    /\ wstate = "done"
    /\ outcomes = {"timed_out"}
    /\ atEnd.alive
    /\ atEnd.count \notin truthy

\* The predicate holds in no state of the entity.
NeverTrue == truthy = {}

\* C11: with a predicate that never holds and the entity alive, the wait
\* ends only by its timer, 3 seconds of the test clock after it was set, and
\* with "condition timed out", not with "model dropped"; once the clock has
\* passed the 3 seconds the wait does end.
C11_TimerEndsTimedOut ==
    /\ [](  (NeverTrue /\ wstate = "done" /\ atEnd.alive) =>
                /\ outcomes = {"timed_out"}
                /\ atEnd.fired
                /\ elapsed >= ConditionTimeout)
    /\ (NeverTrue /\ wstate = "waiting" /\ elapsed >= ConditionTimeout)
            ~> (wstate = "done" \/ ~alive)

\* A wait on a predicate that never holds ended by its timer at the third
\* second, the entity alive and having notified.
C11_Witness ==
    /\ NeverTrue
    /\ wstate = "done"
    /\ outcomes = {"timed_out"}
    /\ atEnd.alive
    /\ atEnd.count >= 1
    /\ elapsed = ConditionTimeout

\* C12, as claimed: the timer of condition() is set with a longer bound when
\* CI is set than when it is not.
C12_BoundFollowsCI ==
    (wstate # "none") => (ci <=> budget > condition_timeout(FALSE))

\* C12: the timer of condition() is set with 3 seconds whether or not CI is
\* set, and a wait it ends has lasted 3 seconds; the bound that follows CI is
\* the one of next_notification(), 5 seconds when CI is set and 1 second
\* otherwise.
C12_ConditionBoundIsFixed ==
    /\ (wstate # "none") => budget = ConditionTimeout
    /\ (wstate = "done" /\ outcomes = {"timed_out"}) => elapsed >= ConditionTimeout
    /\ (nstate # "none") =>
            budget = (IF ci THEN NotificationTimeoutCI ELSE NotificationTimeout)

\* A wait of condition() under CI ended by its timer at the third second.
C12_Witness ==
    /\ ci
    /\ wstate = "done"
    /\ outcomes = {"timed_out"}
    /\ elapsed = ConditionTimeout

\* C13: condition() evaluates the predicate once at its start and once after
\* each notification it takes, so the evaluations number 1 plus the
\* notifications taken; every notification the entity made since the call
\* is either taken or still buffered, none skipped and none merged; and an
\* evaluation reads the entity as it is when the waiter is polled: a wait
\* that resolved ended in a state the predicate holds in, and no earlier
\* evaluation found the predicate true.
C13_EvaluatedAfterEachNotification ==
    /\ (wstate # "none") => evals = consumed + 1
    /\ (wstate = "waiting") => consumed + chan = count
    /\ Resolved => (atEnd.count \in truthy /\ consumed <= atEnd.count)
    /\ (wstate = "waiting" /\ alive /\ count \in truthy) => chan > 0

\* Three notifications were buffered before the waiter was polled again: the
\* evaluation after the first one taken read the entity's latest state.
C13_Witness ==
    /\ Resolved
    /\ truthy = {3}
    /\ consumed = 1
    /\ evals = 2
    /\ atEnd.count = 3

\* C14: the stream of notifications(entity) hands its consumer one item per
\* notification the entity made after the call: at any time the items taken
\* and the items buffered number the notifications made since the call,
\* none lost and none doubled, and when the end of the stream is reached all
\* of them have been taken.
C14_OneItemPerNotification ==
    /\ (sstate # "none") => taken + chan = count - sbase
    /\ (sstate = "ended") => (chan = 0 /\ taken = count - sbase)

\* The entity had notified once before the call; of the three notifications
\* made after it, one has been taken and two are buffered when the entity
\* is released.
C14_Witness ==
    /\ sstate = "open"
    /\ ~alive
    /\ sbase = 1
    /\ taken = 1
    /\ chan = 2

\* C15: once the entity is released nothing more enters the stream of
\* notifications(entity) and the release closes it; a consumer that goes on
\* reading takes what was buffered and is then handed the end of the
\* stream, once, and not before the release; it is not left waiting.
C15_StreamEndsAfterRelease ==
    /\ [](  /\ ends <= 1
            /\ (sstate = "ended") <=> (ends = 1)
            /\ (sstate = "ended") => (~alive /\ chan = 0)
            /\ (sstate = "open" /\ ~alive) => closed)
    /\ [][(sstate # "none" /\ ~alive) => taken' + chan' = taken + chan]_vars
    /\ (sstate = "open" /\ ~alive) ~> (sstate = "ended")

\* The consumer took two items and was then handed the end of the stream.
C15_Witness ==
    /\ sstate = "ended"
    /\ ends = 1
    /\ taken = 2

\* C16: the receiver of events(entity) hands over the events the entity
\* emitted after the call, each once, in the order and with the value of
\* their emission: the events taken followed by the events buffered are the
\* events emitted since the call; and the entity can emit whatever the
\* number of events the consumer has not read yet.
C16_EventsInOrderUnbounded ==
    (estate = "open") =>
        /\ received \o ebuf = SubSeq(emitted, ebase + 1, Len(emitted))
        /\ (alive /\ Len(emitted) < MaxEmit) => ENABLED emit

\* An event was emitted before the call and two different ones after it; the
\* consumer has taken the first of the two, the second is buffered.
C16_Witness ==
    /\ estate = "open"
    /\ ebase = 1
    /\ received = <<"a">>
    /\ ebuf = <<"b">>
    /\ emitted = <<"b", "a", "b">>

\* C17, as claimed: once condition() has completed, nothing the wait
\* registered is left on the entity or the scheduler.
C17_NothingRemains ==
    (wstate = "done") => (~observing /\ ctimer = "dropped")

\* C17: once condition() has completed the wait has no further effect: its
\* timer is dropped and never fires, its outcome stays what it was, the
\* predicate is not evaluated again and nothing is buffered for it; but the
\* two observers notifications() registered stay on the entity until the
\* entity is released.
C17_DoneHasNoFurtherEffect ==
    /\ [](  (wstate = "done") =>
                /\ ctimer = "dropped"
                /\ ~rx
                /\ chan = 0
                /\ observing <=> alive)
    /\ [][(wstate = "done") =>
                UNCHANGED <<wstate, outcomes, evals, consumed, chan, ctimer, atEnd>>]_vars

\* A wait that resolved, after which the clock passed the timer's deadline
\* and the entity notified again.
C17_Witness ==
    /\ Resolved
    /\ alive
    /\ elapsed >= ConditionTimeout
    /\ count > atEnd.count

\* C18: the callback of next_event sends at most one event; the future
\* resolves with the first event emitted after the call, whatever was
\* emitted before the call or is emitted later; once it has resolved the
\* subscription is gone and an emission does not invoke the callback.
C18_FirstEventOnce ==
    /\ [](  /\ vsent <= 1
            /\ (vstate = "done") =>
                    /\ Len(emitted) > ebase
                    /\ vgot = <<emitted[ebase + 1]>>
                    /\ ~vsub)
    /\ [][(vstate = "done") => vcalls' = vcalls]_vars

\* An event before the call, the event the future resolved with, and a
\* different event emitted after the future had resolved.
C18_Witness ==
    /\ vstate = "done"
    /\ ebase = 1
    /\ vcalls = 1
    /\ emitted = <<"b", "a", "b">>
    /\ vgot = <<"a">>

NotificationPending == nstate \in {"created", "waiting"}

\* The sends of next_notification's observer that the full channel refused
\* while the future was pending: one send per notification, nchan of them
\* buffered.
RefusedSends == IF NotificationPending THEN count - nchan ELSE 0

C21_NoFailureIgnored == ~(RefusedSends > 0 /\ alive /\ NotificationPending)

\* C21, as the code has it: the failures of a wait are fatal (a wait that
\* saw no notification, or whose entity was released, never ends resolved),
\* but a send that fails is discarded and the operation goes on: while the
\* future of next_notification is pending its channel holds one notification
\* however many were sent, and a notification that follows the end of
\* condition() leaves nothing in its channel.
C21_OnlyFailedSendsAreDiscarded ==
    /\ NotificationPending =>
        nchan = IF count < NotificationCapacity THEN count ELSE NotificationCapacity
    /\ wstate = "done" => chan = 0
    /\ (nstate = "done" /\ atEnd.count = 0) =>
        noutcomes \subseteq {"timed_out", "dropped"}
    /\ (wstate = "done" /\ ~atEnd.alive) => "resolved" \notin outcomes

\* Three notifications were sent while the future was pending, two of the
\* sends failed, and the future is still pending on a live entity.
C21_Witness ==
    /\ NotificationPending
    /\ alive
    /\ count = 3
    /\ nchan = 1
    /\ RefusedSends = 2

\* C22: simulate_close returns true only if the window was closed by the
\* call.  The statement as the specification makes it: a call that returns
\* true leaves the window closed, and a call on a window without a handler
\* returns false.
C22_TrueMeansClosed ==
    cpos = "returned" =>
        /\ cret = "true" => ~windowOpen
        /\ cbefore = <<>> => cret = "false"

\* C22, as the code has it: simulate_close returns false when no handler is
\* installed and what the handler answered otherwise; it closes nothing
\* itself, and a call that returns leaves the window among the
\* application's windows, as it was when the call began.
C22_ReturnsWhatTheHandlerSays ==
    cpos = "returned" =>
        /\ cret = IF cbefore = <<>> THEN "false"
                  ELSE IF cbefore[1].says THEN "true" ELSE "false"
        /\ windowOpen = wbefore
        /\ windowOpen

\* A call has returned true and the window is still open.
C22_Witness ==
    /\ cpos = "returned"
    /\ cbefore # <<>>
    /\ cret = "true"
    /\ windowOpen

\* C30: simulate_close leaves the should-close handler installed.  While the
\* handler is out of the window the window has none; a call that returns
\* has invoked the handler that was installed exactly once, with no borrow
\* of the application state held, and has installed that same handler
\* again; a call on a window without a handler has invoked nothing and
\* leaves the window without one.
C30_HandlerStaysInstalled ==
    /\ cpos \in {"taken", "invoked"} => should_close_handler = <<>>
    /\ cpos = "returned" =>
        /\ should_close_handler = cbefore
        /\ cinvoked = IF cbefore = <<>> THEN <<>>
                      ELSE <<[id |-> cbefore[1].id, held |-> 0]>>

\* The one handler the application installed has been invoked by two calls
\* of simulate_close and is installed.
C30_Witness ==
    /\ cpos = "returned"
    /\ cinstalls = 1
    /\ cruns[1] = 2
    /\ should_close_handler # <<>>
    /\ should_close_handler = cbefore

\* C23: the modal is never rendered with a current user in the user store
\* while its status is Waiting, the branch render() marks unreachable!(),
\* in any interleaving of sign_in, the end of authenticate_and_connect,
\* the update of the user store and the renders.
C23_WaitingBranchUnreachable == rendered # "unreachable"

C25_SettingsOnlyAfterAcceptance ==
    /\ \A i \in 1..Len(alog) :
        /\ alog[i].wrote <=> (alog[i].result = "ok" /\ alog[i].existed)
        /\ alog[i].emitted <=> alog[i].wrote
    /\ settingsWrites =
        Cardinality({i \in 1..Len(alog) : alog[i].result = "ok" /\ alog[i].existed})
    /\ dismissEvents = settingsWrites
    /\ provider = IF settingsWrites > 0 THEN "Zed" ELSE "unset"

\* Two tasks have ended: the first wrote the setting and emitted the event,
\* the second found the terms accepted but the modal gone.
C25_Witness ==
    /\ Len(alog) = 2
    /\ alog[1].wrote
    /\ alog[1].emitted
    /\ alog[2].result = "ok"
    /\ ~alog[2].existed
    /\ ~alog[2].wrote
    /\ settingsWrites = 1

\* The cleanups quit has run that freed context i.
Frees(i) == Len(SelectSeq(qlog, LAMBDA e : e.did = "drop" /\ e.ctx = i))

\* What quit does with the cleanups, whoever calls it and however often:
\* every context as_mut has leaked is either live with its cleanup on the
\* list or freed by exactly one cleanup; the cleanups have run once each
\* in the order of their registration; and the cleanups of a call come
\* before its shutdown.
QuitRunsEachCleanupOnce ==
    /\ \A i \in 1..MaxContexts :
        /\ Frees(i) <= 1
        /\ ctxs[i] = "freed" <=> Frees(i) = 1
        /\ ctxs[i] = "live" <=>
            \E k \in 1..Len(on_quit) : on_quit[k].kind = "drop" /\ on_quit[k].ctx = i
    /\ \A k \in 1..Len(CleanupsRun) : CleanupsRun[k].n = k
    /\ \A k \in 1..Len(qlog) :
        qlog[k].did \in {"drop", "plain"} =>
            /\ \E j \in (k + 1)..Len(qlog) :
                qlog[j].call = qlog[k].call /\ qlog[j].did \in {"shutdown", "crashed"}
            /\ \A j \in 1..(k - 1) :
                qlog[j].call = qlog[k].call => qlog[j].did \in {"drop", "plain"}

\* C26: the context as_mut retains is freed exactly once, by the cleanup
\* quit runs, and is never accessed after it has been freed, for any number
\* of contexts and any number of calls of quit, each cleanup running once,
\* in registration order, before the shutdown.
C26_FreedOnceNeverUsedAfter ==
    /\ QuitRunsEachCleanupOnce
    /\ uaf = 0

\* The types whose registration as a component, or as a preview, the calls
\* made so far have asked for.
Called(which, collected) ==
    {rlog[k].t : k \in {j \in 1..Len(rlog) : rlog[j].op = which}}
        \cup (IF \E k \in 1..Len(rlog) : rlog[k].op = "init"
              THEN {collected[k] : k \in 1..Len(collected)} ELSE {})

ComponentNames == {type_name(t) : t \in Called("register_component", ALL_COMPONENTS)}
PreviewNames == {type_name(t) : t \in Called("register_preview", ALL_PREVIEWS)}

\* What components() returns now.
Listed == components(component_data)

\* C27: components() returns exactly one entry for each name a component has
\* been registered under; an entry has a preview exactly when
\* register_preview has been called for its name; a preview registered
\* under a name without a component gives no entry; and all_previews() is
\* the entries of all() that have a preview.
C27_OneEntryPerName ==
    /\ {c.name : c \in all(Listed)} = ComponentNames
    /\ Cardinality(all(Listed)) = Cardinality(ComponentNames)
    /\ \A c \in all(Listed) : c.preview # 0 <=> c.name \in PreviewNames
    /\ \A n \in PreviewNames \ ComponentNames :
        ~\E c \in all(Listed) : c.name = n
    /\ all_previews(Listed) \subseteq all(Listed)
    /\ {c.name : c \in all_previews(Listed)} = ComponentNames \cap PreviewNames

\* Two components have been registered under the name "a", which has a
\* preview, and a preview under "b", which has no component: one entry,
\* with its preview.
C27_Witness ==
    /\ Len(component_data.components) = 2
    /\ component_data.components[1][2] = "a"
    /\ component_data.components[2][2] = "a"
    /\ PreviewNames = {"a", "b"}
    /\ Cardinality(all(Listed)) = 1
    /\ all_previews(Listed) = all(Listed)

\* The last call made on the registry.
LastCall == rlog[Len(rlog)]

\* The last call is init() called again, or register_component for a type
\* that had been registered.
Again ==
    /\ rlog # <<>>
    /\ \/ LastCall.op = "init" /\ inits >= 2
       \/ /\ LastCall.op = "register_component"
          /\ \E k \in 1..Len(was.components) :
                was.components[k] =
                    <<type_scope(LastCall.t), type_name(LastCall.t),
                      type_description(LastCall.t)>>

\* The last call repeats the call made just before it.
Repeated ==
    /\ Len(rlog) >= 2
    /\ LastCall = rlog[Len(rlog) - 1]
    /\ LastCall.op \in {"init", "register_component"}

\* C28: the registry is initialised once.  The statement as the
\* specification makes it: init() called again, or a component registered
\* again, leaves components() as it was and the stored list no longer.
C28_RepeatChangesNothing ==
    Again =>
        /\ components(component_data) = components(was)
        /\ Len(component_data.components) = Len(was.components)

\* C28, as the code has it: a call that repeats the one just before it
\* leaves components() as it was, but the stored list grows all the same,
\* by one entry for register_component and by one entry for every
\* collected component for init().
C28_RepeatGrowsTheList ==
    Repeated =>
        /\ components(component_data) = components(was)
        /\ Len(component_data.components) =
            Len(was.components)
                + (IF LastCall.op = "init" THEN Len(ALL_COMPONENTS) ELSE 1)

\* init() has been called twice in a row: the list holds every collected
\* component twice and components() is what it was.
C28_Witness ==
    /\ Repeated
    /\ LastCall.op = "init"
    /\ inits = 2
    /\ Len(component_data.components) = 2 * Len(ALL_COMPONENTS)
    /\ components(component_data) = components(was)

\* init() called again after other registrations has changed components().
SecondInitChangesListing ==
    /\ rlog # <<>>
    /\ LastCall.op = "init"
    /\ inits >= 2
    /\ components(component_data) # components(was)

\* C29: when the first malformed token of the string given to
\* simulate_keystrokes is at position k, nothing has been dispatched when
\* the call fails.  The statement as the specification makes it: the call
\* panics with no keystroke of the string dispatched and no drain run.
C29_NothingDispatchedBeforeFailure ==
    (op.name = "simulate_keystrokes" /\ FirstMalformed(Pieces, 1) > 0) =>
        /\ pc = "panicked"
        /\ log = <<>>

\* C29, as the code has it: the tokens are parsed one by one as the loop
\* reaches them, so when the first malformed token is at position k the
\* call panics with exactly the keystrokes of the tokens 1..k-1 dispatched,
\* in order; the token k and those after it are not dispatched and no drain
\* is run.
C29_PrefixDispatchedBeforeFailure ==
    (op.name = "simulate_keystrokes" /\ FirstMalformed(Pieces, 1) > 0) =>
        /\ pc = "panicked"
        /\ Len(log) = FirstMalformed(Pieces, 1) - 1
        /\ \A i \in 1..Len(log) : log[i] = KeyDown(Parse(Pieces[i]))
        /\ \A i \in 1..Len(log) : log[i] # Drain

\* simulate_keystrokes has panicked at its second token with the keystroke
\* of its first token dispatched.
C29_Witness ==
    /\ pc = "panicked"
    /\ op.name = "simulate_keystrokes"
    /\ FirstMalformed(Pieces, 1) = 2
    /\ log = <<KeyDown(Parse(Pieces[1]))>>

====
